---- MODULE Spec2Model ----
(***************************************************************************)
(* A model of teras_train: the packed-record codec (dataformat), the       *)
(* external-memory shuffle (datatools/shuffle.rs) and the background batch *)
(* loader (dataloader/loader.rs).                                          *)
(*                                                                         *)
(* Option<T> values are sequences: <<>> is None and <<x>> is Some(x).      *)
(* Squares are indices 0..63 (a1 = 0, b1 = 1, ..., h8 = 63), files and     *)
(* ranks are 0..7.                                                         *)
(***************************************************************************)
EXTENDS Integers, Sequences, FiniteSets, TLC

VARIABLES
    \* ---- codec: a game being played, one sample packed and unpacked ----
    position,      \* the dama Position the producer holds
    line,          \* the moves the game will follow
    ply,           \* how many of them have been played
    sample,        \* Option<Sample>: the Sample handed to pack
    packed,        \* Option<Result<PackedSample, PackError>>
    unpacked       \* Option<Result<Sample, UnpackError>> (or a panic)

codecVars == <<position, line, ply, sample, packed, unpacked>>

\* ---- the batch loader ----
VARIABLES
    lfile,      \* the dataset file: a sequence of record ids
    lcap,       \* batch_size
    lpos,       \* the file cursor, in records
    lbuffer,    \* BufferedLoader.buffer
    wpc,        \* the worker: "new", "load", "send", "returned", "panicked"
    wcause,     \* why the worker panicked: "", "io", "unpack"
    wbatch,     \* the batch being filled: the ids of the samples added
    wi,         \* the iteration of load_into's loop
    channel,    \* the batches in the hand-off channel
    handle,     \* the BatchLoader handle: "alive", "dropped"
    cpc,        \* the consumer: "idle", "loading", "closed", "panicked"
    got,        \* Option<Batch>: the batch the last load returned
    nloads,     \* how many loads have returned a batch (counted up to 2)
    rewound,    \* whether fill_buffer has rewound the file
    consumed,   \* consumed[id]: how often record id went to unpack since the last rewind
    ltrail,     \* the bytes the file holds after its last whole record
    lpast       \* how many of them the file cursor has passed

loaderVars == <<lfile, lcap, lpos, lbuffer, wpc, wcause, wbatch, wi, channel,
                handle, cpc, got, nloads, rewound, consumed, ltrail, lpast>>

\* ---- the shuffle engine ----
VARIABLES
    orig,        \* the records of the source file when the pass began
    src,         \* the source file
    inplace,     \* output_path is None
    dst,         \* Option<file>: the file at output_path
    bsize,       \* SUBFILE_SIZE
    spc,         \* the main task: "start", "partition", "open", "write",
                 \*   "join", "ok", "failed"
    positions,   \* the record count divide_and_shuffle computed
    srcpos,      \* the source file's cursor, in records
    tempfiles,   \* the temporary bucket files
    topen,       \* whether the temporary files still exist
    pidx,        \* how many buckets the partition loop has written
    remaining,   \* remaining[i]: the records not yet drawn from bucket i
    cursors,     \* cursors[i]: the records read from bucket i
    left,        \* remaining_subfiles
    tpc,         \* the sampling task: "idle", "run", "done", "failed"
    queue,       \* the unbounded channel
    wbuf,        \* the BufWriter's buffer
    wpos,        \* the destination's cursor, in records
    srcreads,    \* how many source records the pass has read
    dstwrites,   \* whether the destination has been written to
    drawn,       \* the last draw of the sampling loop: rand, and whether it hit `continue`
    strail       \* the bytes the source file holds after its last whole record

shuffleVars == <<orig, src, inplace, dst, bsize, spc, positions, srcpos, tempfiles,
                 topen, pidx, remaining, cursors, left, tpc, queue, wbuf, wpos,
                 srcreads, dstwrites, drawn, strail>>

\* ---- a Batch (dataloader/batch.rs) and its owner ----
VARIABLES
    bpc,               \* the owner: "none" (no batch yet), "ready", "panicked"
    entries,           \* Batch.entries
    capacity,          \* Batch.capacity
    total_features,    \* Batch.total_features
    stm_features,      \* Batch.stm_features: (entry, feature) pairs, flattened
    non_stm_features,  \* Batch.non_stm_features
    eval_centipawns,   \* Batch.eval_centipawns
    outcomes,          \* Batch.outcomes
    added              \* the samples added since the batch was new or cleared

batchVars == <<bpc, entries, capacity, total_features, stm_features,
               non_stm_features, eval_centipawns, outcomes, added>>

vars == <<codecVars, loaderVars, shuffleVars, batchVars>>

Range(seq) == {seq[i] : i \in 1..Len(seq)}

None == <<>>
Some(x) == <<x>>
IsSome(o) == o # <<>>
Unwrap(o) == o[1]

Ok(v) == [tag |-> "Ok", value |-> v]
Err(e) == [tag |-> "Err", err |-> e]
Panic(m) == [tag |-> "Panic", msg |-> m]
IsOk(r) == r.tag = "Ok"

(***************************************************************************)
(* dama: colors, pieces, squares.                                          *)
(***************************************************************************)
Color_ALL == <<"White", "Black">>
Piece_ALL == <<"Pawn", "Knight", "Bishop", "Rook", "Queen", "King">>
Colors == {"White", "Black"}

Opposite(color) == IF color = "White" THEN "Black" ELSE "White"

\* `color as u8`, `piece as u8`: the position of the variant in ALL.
ColorIndex(color) == IF color = "White" THEN 0 ELSE 1
PieceIndex(piece) == CHOOSE i \in 0..5 : Piece_ALL[i + 1] = piece

Squares == 0..63
FileOf(sq) == sq % 8
RankOf(sq) == sq \div 8
SquareAt(file, rank) == rank * 8 + file

\* Rank::back_rank(color)
BackRank(color) == IF color = "White" THEN 0 ELSE 7

Empty == <<>>
PieceOn(color, piece) == <<color, piece>>

NoCastling == [king_side |-> None, queen_side |-> None]

\* Castling::contains(file)
CastlingContains(castling, file) ==
    castling.king_side = Some(file) \/ castling.queen_side = Some(file)

\* An iteration from the highest square down.
SquareSetIterDescending(S) ==
    LET In(sq) == sq \in S IN SelectSeq([i \in 1..64 |-> 64 - i], In)

\* SquareSet iteration: ascending square index.
AllSquares == [i \in 1..64 |-> i - 1]

SquareSetIter(S) ==
    LET In(sq) == sq \in S IN SelectSeq(AllSquares, In)

\* Position::occupied()
Occupied(pos) == {sq \in Squares : pos.board[sq] # Empty}

(***************************************************************************)
(* Bytes and nibbles of the piece table.                                   *)
(***************************************************************************)
RECURSIVE BitOr(_, _)
BitOr(a, b) ==
    IF a = 0 THEN b
    ELSE IF b = 0 THEN a
    ELSE (IF a % 2 = 1 \/ b % 2 = 1 THEN 1 ELSE 0) + 2 * BitOr(a \div 2, b \div 2)

RECURSIVE BitAnd(_, _)
BitAnd(a, b) ==
    IF a = 0 \/ b = 0 THEN 0
    ELSE (IF a % 2 = 1 /\ b % 2 = 1 THEN 1 ELSE 0) + 2 * BitAnd(a \div 2, b \div 2)

NO_EVAL == -32768
BLACK == 0
WHITE == 8
COLOR_MASK == 8
PIECE_MASK == 7
CASTLING_ROOK == 7

encode_color(color) == IF color = "Black" THEN BLACK ELSE WHITE

encode_piece(piece) == PieceIndex(piece) + 1

\* PackedPieces::default(): sixteen zero bytes.
PackedPieces_default == [i \in 1..16 |-> 0]

\* A set that puts even slots into the high nibble and odd ones into the low.
PackedPieces_set_swapped(bytes, index, bits) ==
    [bytes EXCEPT ![(index \div 2) + 1] =
        BitOr(@, IF index % 2 = 1 THEN bits ELSE (bits * 16) % 256)]

\* PackedPieces::set: or the nibble into byte index / 2 (u8 arithmetic).
PackedPieces_set(bytes, index, bits) ==
    [bytes EXCEPT ![(index \div 2) + 1] =
        BitOr(@, IF index % 2 = 0 THEN bits ELSE (bits * 16) % 256)]

\* PackedPieces::get: <<color, piece, is_castling_rook>>, or a panic when the
\* piece bits are 000 (`Piece::ALL[piece as usize - 1]` with piece = 0).
PackedPieces_get(bytes, index) ==
    LET entry == bytes[(index \div 2) + 1]
        value == IF index % 2 = 0 THEN BitAnd(entry, 15) ELSE entry \div 16
        color == IF BitAnd(value, COLOR_MASK) = WHITE THEN "White" ELSE "Black"
        pbits == BitAnd(value, PIECE_MASK)
    IN  IF pbits = CASTLING_ROOK THEN Ok(<<color, "Rook", TRUE>>)
        ELSE IF pbits = 0 THEN Panic("index out of bounds")
        ELSE Ok(<<color, Piece_ALL[pbits], FALSE>>)

(***************************************************************************)
(* Sample::pack / PackedSample::new                                        *)
(***************************************************************************)
Min(a, b) == IF a < b THEN a ELSE b

\* lib.rs:61: position.occupied().count() > 32
\* A capacity check that is off by one: it already refuses 32 pieces.
TooManyAtCapacity(pos) == Cardinality(Occupied(pos)) >= 32

TooManyToPack(pos) == Cardinality(Occupied(pos)) > 32

\* Every rook on its back rank is written as a castling rook.
PackedNibbleAnyHomeRook(pos, square) ==
    LET color == pos.board[square][1]
        piece == pos.board[square][2]
    IN  IF piece = "Rook" /\ RankOf(square) = BackRank(color)
        THEN BitOr(encode_color(color), CASTLING_ROOK)
        ELSE BitOr(encode_color(color), encode_piece(piece))

\* lib.rs:71-78: the nibble written for the piece on `square`.
PackedNibble(pos, square) ==
    LET color == pos.board[square][1]
        piece == pos.board[square][2]
        castling == pos.castling[color]
    IN  IF /\ piece = "Rook"
           /\ RankOf(square) = BackRank(color)
           /\ CastlingContains(castling, FileOf(square))
        THEN BitOr(encode_color(color), CASTLING_ROOK)
        ELSE BitOr(encode_color(color), encode_piece(piece))

\* lib.rs:65-80: for (n, square) in position.occupied().iter().enumerate().
\* Slot n is or-ed into byte n / 2 of the zeroed table, so byte b is what the
\* two sets of slots 2b and 2b + 1 leave in it.
PackPieces(pos, squares) ==
    LET setSlot(bytes, n) ==
            IF n < Len(squares)
            THEN PackedPieces_set(bytes, n, PackedNibble(pos, squares[n + 1]))
            ELSE bytes
    IN  [b \in 1..16 |->
            setSlot(setSlot(PackedPieces_default, 2 * (b - 1)), 2 * (b - 1) + 1)[b]]

\* lib.rs:90-94
EncodeOutcome(outcome) ==
    IF outcome.winner = None THEN 3
    ELSE IF outcome.winner = Some("White") THEN 2
    ELSE 1

\* lib.rs:89: sample.eval.unwrap_or(NO_EVAL)
EncodeEval(eval) == IF IsSome(eval) THEN Unwrap(eval) ELSE NO_EVAL

\* A cast to u8 without the clamp: the clock modulo 256.
halfmove_wrapped(clock) == clock % 256

\* lib.rs:86: position.halfmove_clock().min(255) as u8
halfmove_clamped(clock) == Min(clock, 255)

PackedSample_new(s) ==
    LET pos == s.position IN
    IF TooManyToPack(pos) THEN Err("TooManyPieces")
    ELSE Ok([pieces           |-> PackPieces(pos, SquareSetIter(Occupied(pos))),
             occupied         |-> Occupied(pos),
             en_passant       |-> IF IsSome(pos.en_passant)
                                  THEN Unwrap(pos.en_passant) % 256 ELSE 0,
             halfmove_clock   |-> halfmove_clamped(pos.halfmove_clock),
             fullmove_number  |-> pos.fullmove_number % 65536,
             side_to_move     |-> ColorIndex(pos.side_to_move),
             eval             |-> EncodeEval(s.eval),
             game_outcome     |-> EncodeOutcome(s.outcome)])

(***************************************************************************)
(* PackedSample::unpack                                                    *)
(***************************************************************************)
\* position::Setup::new_empty()
Setup_new_empty ==
    [board            |-> [sq \in Squares |-> Empty],
     castling         |-> [c \in Colors |-> NoCastling],
     en_passant       |-> None,
     side_to_move     |-> "White",
     halfmove_clock   |-> 0,
     fullmove_number  |-> 1]

\* lib.rs:127-133: which castling side a castling rook is recorded under.
\* The two sides exchanged.
CastlingSideSwapped(saw_king_of_color) ==
    IF saw_king_of_color THEN "queen_side" ELSE "king_side"

CastlingSide(saw_king_of_color) ==
    IF saw_king_of_color THEN "king_side" ELSE "queen_side"

\* lib.rs:121-135: the decode loop over the occupied squares in ascending
\* order, slot n for the n-th square. When the loop reaches slot n,
\* saw_king[color] holds iff a king of that color is among slots 0..n; a
\* castling rook writes its file into the side CastlingSide picks, so of
\* several on one side the last stays; the first slot PackedPieces::get
\* panics on ends the loop.
UnpackPieces(pieces, squares) ==
    LET slots == [n \in 1..Len(squares) |-> PackedPieces_get(pieces, n - 1)] \o <<>>
        panics == {n \in 1..Len(squares) : ~IsOk(slots[n])}
        kings(color) ==
            {n \in 1..Len(squares) : slots[n].value = <<color, "King", FALSE>>}
        saw_king(n, color) == \E m \in kings(color) : m <= n
        rooks(color, side) ==
            {n \in 1..Len(squares) :
                /\ slots[n].value = <<color, "Rook", TRUE>>
                /\ CastlingSide(saw_king(n, color)) = side}
        right(color, side) ==
            IF rooks(color, side) = {} THEN None
            ELSE Some(FileOf(squares[CHOOSE n \in rooks(color, side) :
                                        \A m \in rooks(color, side) : m <= n]))
        slotOf(sq) == Cardinality({n \in 1..Len(squares) : squares[n] <= sq})
    IN  IF panics # {}
        THEN slots[CHOOSE n \in panics : \A m \in panics : n <= m]
        ELSE Ok([castling |-> [c \in Colors |->
                                  [king_side  |-> right(c, "king_side"),
                                   queen_side |-> right(c, "queen_side")]],
                 board |-> [sq \in Squares |->
                              IF sq \in Range(squares)
                              THEN PieceOn(slots[slotOf(sq)].value[1],
                                           slots[slotOf(sq)].value[2])
                              ELSE Empty]])

\* A decode that looks at the two low bits only.
DecodeOutcomeLowBits(code) ==
    IF code % 4 = 3 THEN Ok([winner |-> None])
    ELSE IF code % 4 = 2 THEN Ok([winner |-> Some("White")])
    ELSE IF code % 4 = 1 THEN Ok([winner |-> Some("Black")])
    ELSE Err("InvalidOutcome")

\* lib.rs:141-146
DecodeOutcome(code) ==
    IF code = 3 THEN Ok([winner |-> None])
    ELSE IF code = 2 THEN Ok([winner |-> Some("White")])
    ELSE IF code = 1 THEN Ok([winner |-> Some("Black")])
    ELSE Err("InvalidOutcome")

\* lib.rs:148-151
DecodeEval(eval) == IF eval = NO_EVAL THEN None ELSE Some(eval)

\* Setup::into_position (dama): the basic legality the rules engine asks of
\* a set-up position; the Position holds the Setup's fields unchanged.
KingSquares(board, color) == {sq \in Squares : board[sq] = PieceOn(color, "King")}

CastlingConsistent(setup, color) ==
    LET rights == setup.castling[color]
        kings == KingSquares(setup.board, color)
        rookAt(f) == setup.board[SquareAt(f, BackRank(color))] = PieceOn(color, "Rook")
    IN  /\ IsSome(rights.king_side) =>
              /\ rookAt(Unwrap(rights.king_side))
              /\ \A k \in kings : RankOf(k) = BackRank(color)
                                  /\ FileOf(k) < Unwrap(rights.king_side)
        /\ IsSome(rights.queen_side) =>
              /\ rookAt(Unwrap(rights.queen_side))
              /\ \A k \in kings : RankOf(k) = BackRank(color)
                                  /\ Unwrap(rights.queen_side) < FileOf(k)

EnPassantConsistent(setup) ==
    IsSome(setup.en_passant) =>
        LET sq == Unwrap(setup.en_passant) IN
        IF setup.side_to_move = "White"
        THEN /\ RankOf(sq) = 5
             /\ setup.board[sq] = Empty
             /\ setup.board[sq - 8] = PieceOn("Black", "Pawn")
             /\ setup.board[sq + 8] = Empty
        ELSE /\ RankOf(sq) = 2
             /\ setup.board[sq] = Empty
             /\ setup.board[sq + 8] = PieceOn("White", "Pawn")
             /\ setup.board[sq - 8] = Empty

Setup_into_position(setup) ==
    IF /\ \A c \in Colors : Cardinality(KingSquares(setup.board, c)) = 1
       /\ \A sq \in Squares :
             (setup.board[sq] # Empty /\ setup.board[sq][2] = "Pawn")
                 => RankOf(sq) \in 1..6
       /\ \A c \in Colors : CastlingConsistent(setup, c)
       /\ EnPassantConsistent(setup)
    THEN Ok(setup)
    ELSE Err("InvalidPosition")

\* A bound check that lets index 64 through.
Square_try_from_index_inclusive(index) ==
    IF index <= 64 THEN Some(index) ELSE None

\* lib.rs:102: Square::try_from_index, None for an index that is no square
Square_try_from_index(index) ==
    IF index < 64 THEN Some(index) ELSE None

PackedSample_unpack(rec) ==
    IF rec.en_passant # 0 /\ ~IsSome(Square_try_from_index(rec.en_passant))
    THEN Err("InvalidEnPassant")
    ELSE IF rec.side_to_move >= Len(Color_ALL) THEN Err("InvalidSideToMove")
    ELSE IF Cardinality(rec.occupied) > 32 THEN Err("TooManyPieces")
    ELSE
      LET loop == UnpackPieces(rec.pieces, SquareSetIter(rec.occupied))
      IN
      IF ~IsOk(loop) THEN loop
      ELSE
        LET setup == [board           |-> loop.value.board,
                      castling        |-> loop.value.castling,
                      en_passant      |-> IF rec.en_passant # 0
                                          THEN Square_try_from_index(rec.en_passant)
                                          ELSE None,
                      side_to_move    |-> Color_ALL[rec.side_to_move + 1],
                      halfmove_clock  |-> rec.halfmove_clock,
                      fullmove_number |-> rec.fullmove_number]
            pos == Setup_into_position(setup)
            outcome == DecodeOutcome(rec.game_outcome)
        IN
        IF ~IsOk(pos) THEN pos
        ELSE IF ~IsOk(outcome) THEN outcome
        ELSE Ok([position |-> pos.value,
                 outcome  |-> outcome.value,
                 eval     |-> DecodeEval(rec.eval)])

(***************************************************************************)
(* dama: the initial position and playing a move (from, to).               *)
(***************************************************************************)
BackRankPieces == <<"Rook", "Knight", "Bishop", "Queen", "King", "Bishop", "Knight", "Rook">>

\* Position::new_initial()
Position_new_initial ==
    [board |-> [sq \in Squares |->
                   IF RankOf(sq) = 0 THEN PieceOn("White", BackRankPieces[FileOf(sq) + 1])
                   ELSE IF RankOf(sq) = 1 THEN PieceOn("White", "Pawn")
                   ELSE IF RankOf(sq) = 6 THEN PieceOn("Black", "Pawn")
                   ELSE IF RankOf(sq) = 7 THEN PieceOn("Black", BackRankPieces[FileOf(sq) + 1])
                   ELSE Empty],
     castling |-> [c \in Colors |-> [king_side |-> Some(7), queen_side |-> Some(0)]],
     en_passant |-> None,
     side_to_move |-> "White",
     halfmove_clock |-> 0,
     fullmove_number |-> 1]

Abs(x) == IF x < 0 THEN -x ELSE x

\* The castling rights of `color` after a piece left or was captured on `sq`.
RightsWithout(rights, color, sq) ==
    IF RankOf(sq) # BackRank(color) THEN rights
    ELSE [king_side  |-> IF rights.king_side = Some(FileOf(sq)) THEN None
                         ELSE rights.king_side,
          queen_side |-> IF rights.queen_side = Some(FileOf(sq)) THEN None
                         ELSE rights.queen_side]

\* Position::play: a move of the side to move from `from` to `to` (castling is
\* the king's two-square move; promotions do not occur in the games played).
PlayMove(pos, from, to) ==
    LET us == pos.side_to_move
        them == Opposite(us)
        piece == pos.board[from][2]
        isCastle == piece = "King" /\ Abs(FileOf(to) - FileOf(from)) = 2
        isEnPassant == /\ piece = "Pawn"
                       /\ pos.en_passant = Some(to)
                       /\ FileOf(from) # FileOf(to)
        isCapture == pos.board[to] # Empty \/ isEnPassant
        isDouble == piece = "Pawn" /\ Abs(to - from) = 16
        rookFrom == SquareAt(IF FileOf(to) > FileOf(from) THEN 7 ELSE 0, RankOf(from))
        rookTo == SquareAt(IF FileOf(to) > FileOf(from) THEN 5 ELSE 3, RankOf(from))
        epVictim == SquareAt(FileOf(to), RankOf(from))
        moved == [pos.board EXCEPT ![from] = Empty, ![to] = pos.board[from]]
        board == IF isCastle
                 THEN [moved EXCEPT ![rookFrom] = Empty, ![rookTo] = PieceOn(us, "Rook")]
                 ELSE IF isEnPassant THEN [moved EXCEPT ![epVictim] = Empty]
                 ELSE moved
        ours == IF piece = "King" THEN NoCastling
                ELSE IF piece = "Rook" THEN RightsWithout(pos.castling[us], us, from)
                ELSE pos.castling[us]
        theirs == RightsWithout(pos.castling[them], them, to)
    IN  [board |-> board,
         castling |-> [c \in Colors |-> IF c = us THEN ours ELSE theirs],
         en_passant |-> IF isDouble THEN Some((from + to) \div 2) ELSE None,
         side_to_move |-> them,
         halfmove_clock |-> IF piece = "Pawn" \/ isCapture THEN 0
                            ELSE pos.halfmove_clock + 1,
         fullmove_number |-> IF us = "Black" THEN pos.fullmove_number + 1
                             ELSE pos.fullmove_number]

\* A move the side to move can make at all: its own piece, not onto its own.
Movable(pos, from, to) ==
    /\ pos.board[from] # Empty
    /\ pos.board[from][1] = pos.side_to_move
    /\ IF pos.board[to] = Empty THEN TRUE ELSE pos.board[to][1] # pos.side_to_move
    /\ ~(pos.board[from][2] = "Pawn" /\ RankOf(to) \in {0, 7})

(***************************************************************************)
(* The codec under test: a game is played move by move from the initial    *)
(* position, and at any point the producer builds a Sample, packs it and   *)
(* unpacks the record (tests::check_roundtrip).                            *)
(***************************************************************************)
\* How many times the knights go out and back (Nf3 Nf6 Ng1 Ng8) in KnightLine.
MaxCycles == 64
\* How many pawns beyond the 32 pieces of the initial position an over-full
\* board holds.
MaxExtra == 2

\* tests::pack_roundtrip_game: the moves of the game as (from, to) squares.
TestGame == <<
    <<6,21>>, <<51,35>>, <<14,22>>, <<50,34>>, <<5,14>>, <<57,42>>, <<11,27>>,
    <<52,44>>, <<4,6>>, <<34,27>>, <<21,27>>, <<62,52>>, <<10,26>>, <<42,27>>,
    <<3,27>>, <<52,42>>, <<27,3>>, <<35,27>>, <<12,20>>, <<61,34>>, <<20,27>>,
    <<34,27>>, <<1,18>>, <<60,62>>, <<18,33>>, <<27,41>>, <<9,17>>, <<48,40>>,
    <<33,18>>, <<41,27>>, <<2,9>>, <<44,36>>, <<3,11>>, <<58,44>>, <<18,35>>,
    <<49,33>>, <<26,33>>, <<40,33>>, <<35,29>>, <<36,29>>, <<14,42>>, <<27,9>>,
    <<11,9>>, <<56,57>>, <<5,3>>, <<59,41>>, <<42,21>>, <<29,22>>, <<15,22>>,
    <<33,25>>, <<8,24>>, <<25,16>>, <<0,16>>, <<54,46>>, <<9,27>>, <<41,33>>,
    <<17,25>>, <<33,25>>, <<27,25>>, <<57,25>>, <<16,56>>, <<61,56>>, <<21,56>>,
    <<46,38>>, <<56,35>>, <<44,37>>, <<3,2>>, <<62,54>>, <<2,50>>, <<37,46>>,
    <<50,26>>, <<25,1>>, <<6,14>>, <<1,4>>, <<26,25>>, <<55,39>>, <<25,24>>,
    <<4,36>>, <<35,21>>, <<54,47>>, <<14,6>>, <<36,44>>, <<24,26>>, <<38,30>>,
    <<21,35>>, <<44,43>>, <<35,49>>, <<47,38>>, <<13,21>>, <<53,37>>, <<21,30>>,
    <<39,30>>, <<26,25>>, <<46,53>>, <<6,13>>, <<43,11>>, <<13,6>>, <<38,45>>,
    <<25,41>>, <<45,38>>, <<41,25>>, <<53,44>>, <<25,24>>, <<11,9>>, <<49,56>>,
    <<38,45>>, <<24,29>>, <<45,36>>, <<29,13>>, <<9,13>>, <<6,13>>, <<44,35>>,
    <<56,35>>, <<36,35>>, <<13,20>>, <<35,36>> >>

\* 1. Nf3 Nf6 2. Rg1 Rg8 3. Rh1 Rh8: the king-side rooks are home again but
\* no longer castling-eligible.
RookLine == << <<6,21>>, <<62,45>>, <<7,6>>, <<63,62>>, <<6,7>>, <<62,63>> >>

\* 1. a4 h5 2. Ra3 Rh6: White keeps only the king side, Black only the queen side.
LiftLine == << <<8,24>>, <<55,39>>, <<0,16>>, <<63,47>> >>

\* 1. e4 a6 2. e5 d5 3. exd6: a capturable en-passant target, then the capture.
EnPassantLine == << <<12,28>>, <<48,40>>, <<28,36>>, <<51,35>>, <<36,43>> >>

\* Nf3 Nf6 Ng1 Ng8, over and over: the halfmove clock passes 255.
KnightLine == [i \in 1..(4 * MaxCycles + 4) |->
                  << <<6,21>>, <<62,45>>, <<21,6>>, <<45,62>> >>[((i - 1) % 4) + 1]]

Lines == {TestGame, RookLine, LiftLine, EnPassantLine, KnightLine}

\* The initial position with `extra` more pawns (on the third rank): more
\* occupied squares than the piece table has slots.
OverfullPosition(extra) ==
    [Position_new_initial EXCEPT
        !.board = [sq \in Squares |->
                      IF sq \in 16..(15 + extra) THEN PieceOn("White", "Pawn")
                      ELSE Position_new_initial.board[sq]]]

Outcomes == {[winner |-> None], [winner |-> Some("White")], [winner |-> Some("Black")]}
Evals == {None, Some(-202), Some(NO_EVAL), Some(32767)}

CodecInitWith(lines, extras) ==
    /\ \/ position = Position_new_initial /\ line \in lines
       \/ \E extra \in extras :
             position = OverfullPosition(extra) /\ line = <<>>
    /\ ply = 0
    /\ sample = None
    /\ packed = None
    /\ unpacked = None

\* The producer plays the next move of the game.
Play ==
    /\ UNCHANGED <<loaderVars, shuffleVars, batchVars>>
    /\ sample = None
    /\ ply < Len(line)
    /\ Movable(position, line[ply + 1][1], line[ply + 1][2])
    /\ position' = PlayMove(position, line[ply + 1][1], line[ply + 1][2])
    /\ ply' = ply + 1
    /\ UNCHANGED <<line, sample, packed, unpacked>>

\* Sample { position, outcome, eval }.pack()
Pack(outcome, eval) ==
    /\ UNCHANGED <<loaderVars, shuffleVars, batchVars>>
    /\ sample = None
    /\ sample' = Some([position |-> position, outcome |-> outcome, eval |-> eval])
    /\ packed' = Some(PackedSample_new(Unwrap(sample')))
    /\ UNCHANGED <<position, line, ply, unpacked>>

\* packed.unpack()
Unpack ==
    /\ UNCHANGED <<loaderVars, shuffleVars, batchVars>>
    /\ IsSome(packed)
    /\ IsOk(Unwrap(packed))
    /\ unpacked = None
    /\ unpacked' = Some(PackedSample_unpack(Unwrap(packed).value))
    /\ UNCHANGED <<position, line, ply, sample, packed>>

\* The ways a record read from a file differs from the record that was
\* packed: a piece-table byte zeroed, a field byte out of range (the outcome
\* byte 0, 4, 7 or 255, the en-passant byte 0, 64 or 255), the occupancy mask
\* full or empty.
TamperKinds ==
    {"nibble", "outcome", "outcome_4", "outcome_7", "outcome_255", "side",
     "en_passant", "en_passant_0", "en_passant_255", "occupied", "empty"}

Tampered(rec, kind) ==
    CASE kind = "nibble"     -> [rec EXCEPT !.pieces[1] = 0]
      [] kind = "outcome"    -> [rec EXCEPT !.game_outcome = 0]
      [] kind = "outcome_4"  -> [rec EXCEPT !.game_outcome = 4]
      [] kind = "outcome_7"  -> [rec EXCEPT !.game_outcome = 7]
      [] kind = "outcome_255" -> [rec EXCEPT !.game_outcome = 255]
      [] kind = "side"       -> [rec EXCEPT !.side_to_move = 2]
      [] kind = "en_passant" -> [rec EXCEPT !.en_passant = 64]
      [] kind = "en_passant_0" -> [rec EXCEPT !.en_passant = 0]
      [] kind = "en_passant_255" -> [rec EXCEPT !.en_passant = 255]
      [] kind = "occupied"   -> [rec EXCEPT !.occupied = Squares]
      [] kind = "empty"      -> [rec EXCEPT !.occupied = {}]

\* file.read_exact(bytemuck::bytes_of_mut(&mut sample)): the record to decode
\* is whatever bytes the file holds, here a packed sample with one change.
Tamper(kind) ==
    /\ UNCHANGED <<loaderVars, shuffleVars, batchVars>>
    /\ IsSome(packed)
    /\ IsOk(Unwrap(packed))
    /\ unpacked = None
    /\ Unwrap(packed) = PackedSample_new(Unwrap(sample))
    /\ packed' = Some(Ok(Tampered(Unwrap(packed).value, kind)))
    /\ UNCHANGED <<position, line, ply, sample, unpacked>>

CodecNext ==
    \/ Play
    \/ \E outcome \in Outcomes, eval \in Evals : Pack(outcome, eval)
    \/ Unpack


(***************************************************************************)
(* The batch loader (dataloader/loader.rs): a worker thread that reads the *)
(* dataset file through a shuffled buffer, decodes records into batches    *)
(* and hands them to the consumer over a bounded channel.                  *)
(***************************************************************************)
\* How many valid records a dataset file holds at most.
MaxValid == 2
\* The largest batch_size a loader is opened with.
MaxCap == 2
\* The records the read buffer holds (BUFFER_SIZE, scaled down).
BufferRecords == 2
\* The bound of the hand-off channel in the scaled-down loader.
ChannelBound == 1
\* mpsc::sync_channel(32)
SYNC_CHANNEL_BOUND == 32
\* mem::size_of::<PackedSample>(): 16 + 8 + 2 + 2 + 1 + 1 + 1 + 1 bytes
RecordBytes == 32
\* How many bytes a file holds at most after its last whole record.
MaxTrail == 1

\* Records are named by an id: 1, 2, ... are valid records with distinct
\* content, 0 is a record whose outcome code is 00 (unpack returns
\* InvalidOutcome) and -1 a record whose first piece-table byte is zeroed
\* while its squares are occupied (PackedPieces::get panics).
CorruptIds == {0, -1}
RecordIds == CorruptIds \cup (1..(MaxValid + 1))

ValidRecord(id) ==
    PackedSample_new([position |-> Position_new_initial,
                      outcome  |-> [winner |-> None],
                      eval     |-> Some(id)]).value

RecordOf(id) ==
    IF id > 0 THEN ValidRecord(id)
    ELSE IF id = 0 THEN [ValidRecord(1) EXCEPT !.game_outcome = 0]
    ELSE [ValidRecord(1) EXCEPT !.pieces[1] = 0]

\* sample.unpack() of every record, computed once.
Unpacked == [id \in RecordIds |-> PackedSample_unpack(RecordOf(id))]

\* <<1, ..., n>>
Iota(n) == [i \in 1..n |-> i]

InsertAt(seq, p, x) == SubSeq(seq, 1, p) \o <<x>> \o SubSeq(seq, p + 1, Len(seq))

\* The dataset files: up to MaxValid valid records, and at most one corrupt
\* record among them.
Files ==
    {Iota(n) : n \in 0..MaxValid}
    \cup UNION {{InsertAt(Iota(n), p, c) : p \in 0..n, c \in CorruptIds} :
                  n \in 0..MaxValid}

\* The orders slice.shuffle can leave a sequence in.
Shuffles(seq) ==
    {p \in [1..Len(seq) -> Range(seq)] :
        \A i \in 1..Len(seq) :
            Cardinality({j \in 1..Len(seq) : p[j] = seq[i]})
                = Cardinality({j \in 1..Len(seq) : seq[j] = seq[i]})}

\* BatchLoader::from_file(file, batch_size)
LoaderInitWith(files, caps, trails) ==
    /\ lfile \in files
    /\ ltrail \in trails
    /\ lpast = 0
    /\ lcap \in caps
    /\ lpos = 0
    /\ lbuffer = <<>>
    /\ wpc = "new"
    /\ wcause = ""
    /\ wbatch = <<>>
    /\ wi = 0
    /\ channel = <<>>
    /\ handle = "alive"
    /\ cpc = "idle"
    /\ got = None
    /\ nloads = 0
    /\ rewound = FALSE
    /\ consumed = [id \in RecordIds |-> 0]

\* loader_thread: let mut batch = Batch::new(batch_size); load_into clears it.
W_NewBatch ==
    /\ UNCHANGED <<codecVars, shuffleVars, batchVars, ltrail>>
    /\ wpc = "new"
    /\ wbatch' = <<>>
    /\ wi' = 0
    /\ wpc' = "load"
    /\ UNCHANGED <<lfile, lcap, lpos, lbuffer, wcause, channel, handle, cpc, got,
                   nloads, rewound, consumed, lpast>>

\* A read that returns no record wherever the cursor is.
ReadNothing(pos) == <<>>

\* A read that starts one record before the cursor.
ReadAgain(pos) ==
    SubSeq(lfile, IF pos = 0 THEN 1 ELSE pos, Min(Len(lfile), pos + BufferRecords))

\* fill_buffer's reads: the records from the cursor on, as many as the buffer
\* holds; at end of file the file is rewound and read again.
ReadAt(pos) == SubSeq(lfile, pos + 1, Min(Len(lfile), pos + BufferRecords))

\* The bytes after the last whole record that the read at `pos` returns, the
\* cursor having passed `past` of them: all that are left when the records
\* read do not fill the buffer.
TrailAt(pos, past) ==
    IF Len(ReadAt(pos)) < BufferRecords THEN ltrail - past ELSE 0

\* buf_size == 0: the read returned no byte.
NeedsRewind == ReadAt(lpos) = <<>> /\ TrailAt(lpos, lpast) = 0

\* Where the cursor is among the trailing bytes when the filling read starts.
PastFrom == IF NeedsRewind THEN 0 ELSE lpast
\* A fill that never rewinds.
FillFromCursor == lpos

\* Where fill_buffer's read that fills the buffer starts.
FillFrom == IF NeedsRewind THEN 0 ELSE lpos

\* The records consumed since the last rewind, as a fill finds them: none
\* when the fill rewinds.
ConsumedAtFill == IF NeedsRewind THEN [id \in RecordIds |-> 0] ELSE consumed

\* What load_into does with the record `next` returned.
AfterRecord(rec, rest, before) ==
    LET res == Unpacked[rec] IN
    /\ lbuffer' = rest
    /\ consumed' = [before EXCEPT ![rec] = @ + 1]
    /\ IF res.tag = "Panic"
       THEN /\ wpc' = "panicked"
            /\ wcause' = "unpack"
            /\ UNCHANGED <<wbatch, wi>>
       ELSE /\ wbatch' = IF res.tag = "Ok" THEN Append(wbatch, rec) ELSE wbatch
            /\ wi' = wi + 1
            /\ wpc' = IF wi + 1 >= lcap THEN "send" ELSE "load"
            /\ wcause' = wcause

\* One iteration of load_into's loop: next() (filling the buffer when it is
\* empty), unpack, batch.add.
W_Load ==
    /\ UNCHANGED <<codecVars, shuffleVars, batchVars, ltrail>>
    /\ wpc = "load"
    /\ wi < lcap
    /\ IF lbuffer # <<>>
       THEN /\ AfterRecord(lbuffer[Len(lbuffer)], SubSeq(lbuffer, 1, Len(lbuffer) - 1),
                           consumed)
            /\ UNCHANGED <<lpos, rewound, lpast>>
       ELSE /\ lpos' = FillFrom + Len(ReadAt(FillFrom))
            /\ lpast' = PastFrom + TrailAt(FillFrom, PastFrom)
            /\ rewound' = (rewound \/ NeedsRewind)
            /\ \E shuffled \in Shuffles(ReadAt(FillFrom)) :
                  IF shuffled = <<>>
                  THEN \* buffer.pop() is None: break
                       /\ lbuffer' = <<>>
                       /\ consumed' = ConsumedAtFill
                       /\ wpc' = "send"
                       /\ UNCHANGED <<wbatch, wi, wcause>>
                  ELSE AfterRecord(shuffled[Len(shuffled)],
                                   SubSeq(shuffled, 1, Len(shuffled) - 1),
                                   ConsumedAtFill)
    /\ UNCHANGED <<lfile, lcap, channel, handle, cpc, got, nloads>>

\* fill_buffer returns an I/O error: expect("failed to read from dataset file").
W_FillFails ==
    /\ UNCHANGED <<codecVars, shuffleVars, batchVars, ltrail>>
    /\ wpc = "load"
    /\ wi < lcap
    /\ lbuffer = <<>>
    /\ wpc' = "panicked"
    /\ wcause' = "io"
    /\ UNCHANGED <<lfile, lcap, lpos, lbuffer, wbatch, wi, channel, handle, cpc,
                   got, nloads, rewound, consumed, lpast>>

\* A channel that takes one batch more than its bound.
ChannelFullAbove(chan, bound) == Len(chan) > bound

\* SyncSender::send blocks while the channel holds `bound` batches.
ChannelFull(chan, bound) == Len(chan) >= bound

\* A send that does not notice the receiver's drop.
SendNeverFails(h) == FALSE

\* SyncSender::send returns Err once the receiver has been dropped.
SendFails(h) == h = "dropped"

\* batch_sender.send(batch): on is_err() the thread returns.
W_Send(bound) ==
    /\ UNCHANGED <<codecVars, shuffleVars, batchVars, ltrail>>
    /\ wpc = "send"
    /\ IF SendFails(handle)
       THEN /\ wpc' = "returned"
            /\ UNCHANGED channel
       ELSE /\ ~ChannelFull(channel, bound)
            /\ channel' = Append(channel, wbatch)
            /\ wpc' = "new"
    /\ UNCHANGED <<lfile, lcap, lpos, lbuffer, wcause, wbatch, wi, handle, cpc, got,
                   nloads, rewound, consumed, lpast>>

WorkerGone == wpc \in {"returned", "panicked"}

\* The consumer calls BatchLoader::load.
C_Load ==
    /\ UNCHANGED <<codecVars, shuffleVars, batchVars, ltrail>>
    /\ cpc = "idle"
    /\ handle = "alive"
    /\ cpc' = "loading"
    /\ UNCHANGED <<lfile, lcap, lpos, lbuffer, wpc, wcause, wbatch, wi, channel,
                   handle, got, nloads, rewound, consumed, lpast>>

\* What load does when recv() reports that the sender is gone.
LoadDisconnected == "panicked"

\* batch_receiver.recv(): the oldest batch; blocks while the channel is empty
\* and the worker lives; with the worker gone, expect(..) on the error.
C_Recv ==
    /\ UNCHANGED <<codecVars, shuffleVars, batchVars, ltrail>>
    /\ cpc = "loading"
    /\ IF channel # <<>>
       THEN /\ got' = Some(Head(channel))
            /\ channel' = Tail(channel)
            /\ nloads' = Min(nloads + 1, 2)
            /\ cpc' = "idle"
       ELSE /\ WorkerGone
            /\ cpc' = LoadDisconnected
            /\ UNCHANGED <<got, channel, nloads>>
    /\ UNCHANGED <<lfile, lcap, lpos, lbuffer, wpc, wcause, wbatch, wi, handle,
                   rewound, consumed, lpast>>

\* The BatchLoader is dropped: the receiver goes, and the batches still in
\* the channel with it.
C_Drop ==
    /\ UNCHANGED <<codecVars, shuffleVars, batchVars, ltrail>>
    /\ cpc = "idle"
    /\ handle = "alive"
    /\ handle' = "dropped"
    /\ channel' = <<>>
    /\ cpc' = "closed"
    /\ UNCHANGED <<lfile, lcap, lpos, lbuffer, wpc, wcause, wbatch, wi, got, nloads,
                   rewound, consumed, lpast>>

Worker(bound) == W_NewBatch \/ W_Load \/ W_FillFails \/ W_Send(bound)

LoaderNext ==
    \/ W_NewBatch
    \/ W_Load
    \/ W_FillFails
    \/ W_Send(ChannelBound)
    \/ C_Load
    \/ C_Recv
    \/ C_Drop


(***************************************************************************)
(* The shuffle engine (datatools/shuffle.rs): the source is cut into       *)
(* buckets, each shuffled in memory and written to a temporary file; a     *)
(* sampling task then draws the buckets' records one by one into an        *)
(* unbounded queue that the main task writes to the destination.           *)
(***************************************************************************)
\* How many records the source file holds at most.
MaxRecords == 3
\* The largest bucket capacity (SUBFILE_SIZE, scaled down).
MaxBucket == 2
\* The records tokio's BufWriter holds before it writes them out.
WriterRecords == 1

\* Temporary files that stay behind when their owner is dropped.
TempfilesLeak == TRUE

\* The temporary files are unnamed (tempfile::tempfile): when the Vec<File>
\* that owns them is dropped they are closed, and with that they are gone.
TempfilesOpenAfterDrop == FALSE

\* One more than the rounded-down quotient.
DivFloorPlusOne(a, b) == (a \div b) + 1

\* u64::div_ceil
DivCeil(a, b) == (a + b - 1) \div b

\* What the file at output_path held before the pass, when there is one.
OldOutputs == {None, Some(<<>>), Some(<<9>>)}

ShuffleInitWith(sizes, modes, olds, buckets, trails) ==
    /\ \E n \in sizes : orig = Iota(n)
    /\ strail \in trails
    /\ src = orig
    /\ inplace \in modes
    /\ dst \in (IF inplace THEN {None} ELSE olds)
    /\ bsize \in buckets
    /\ spc = "start"
    /\ positions = 0
    /\ srcpos = 0
    /\ tempfiles = <<>>
    /\ topen = FALSE
    /\ pidx = 0
    /\ remaining = <<>>
    /\ cursors = <<>>
    /\ left = 0
    /\ tpc = "idle"
    /\ queue = <<>>
    /\ wbuf = <<>>
    /\ wpos = 0
    /\ srcreads = 0
    /\ dstwrites = FALSE
    /\ drawn = None

\* file.seek(SeekFrom::End(0)): the size of the source file in bytes.
SourceBytes == (Len(src) * RecordBytes) + strail

\* shuffle.rs:88: the size divided by mem::size_of::<PackedSample>()
RecordCount(bytes) == bytes \div RecordBytes

\* divide_and_shuffle, up to the partition loop: the record count, and one
\* empty temporary file per bucket.
M_Start ==
    /\ UNCHANGED <<codecVars, loaderVars, batchVars, strail, drawn>>
    /\ spc = "start"
    /\ positions' = RecordCount(SourceBytes)
    /\ srcpos' = 0
    /\ tempfiles' = [i \in 1..DivCeil(RecordCount(SourceBytes), bsize) |-> <<>>]
    /\ topen' = TRUE
    /\ pidx' = 0
    /\ remaining' = <<>>
    /\ spc' = "partition"
    /\ UNCHANGED <<orig, src, inplace, dst, bsize, cursors, left, tpc, queue, wbuf,
                   wpos, srcreads, dstwrites>>

\* One iteration of the partition loop: read a window, shuffle it, write it
\* to the next temporary file.
M_Partition ==
    /\ UNCHANGED <<codecVars, loaderVars, batchVars, strail, drawn>>
    /\ spc = "partition"
    /\ pidx < Len(tempfiles)
    /\ LET subfile_positions == Min(positions - srcpos, bsize)
           window == SubSeq(src, srcpos + 1, srcpos + subfile_positions)
       IN  /\ \E subfile \in Shuffles(window) :
                 tempfiles' = [tempfiles EXCEPT ![pidx + 1] = subfile]
           /\ remaining' = Append(remaining, subfile_positions)
           /\ srcpos' = srcpos + subfile_positions
           /\ srcreads' = srcreads + subfile_positions
    /\ pidx' = pidx + 1
    /\ UNCHANGED <<orig, src, inplace, dst, bsize, spc, positions, topen, cursors,
                   left, tpc, queue, wbuf, wpos, dstwrites>>

\* A loop that is left after its first iteration.
PartitionBegun == pidx = Len(tempfiles) \/ pidx >= 1

\* for tempfile in tempfiles.iter_mut(): the loop ends after the last file.
PartitionDone == pidx = Len(tempfiles)

\* The partition phase is over: the temporary files are flushed and rewound,
\* the destination is opened (created or truncated at output_path, or the
\* source rewound), and the sampling task is spawned.
M_Open ==
    /\ UNCHANGED <<codecVars, loaderVars, batchVars, strail, drawn>>
    /\ spc = "partition"
    /\ PartitionDone
    /\ dst' = IF inplace THEN dst ELSE Some(<<>>)
    /\ wpos' = 0
    /\ cursors' = [i \in 1..Len(tempfiles) |-> 0]
    /\ left' = Len(tempfiles)
    /\ tpc' = "run"
    /\ spc' = "write"
    /\ UNCHANGED <<orig, src, inplace, bsize, positions, srcpos, tempfiles, topen,
                   pidx, remaining, queue, wbuf, srcreads, dstwrites>>

\* An I/O error in divide_and_shuffle or in opening the destination: `?`
\* returns it, and the temporary files are dropped.
M_PartitionFails ==
    /\ UNCHANGED <<codecVars, loaderVars, batchVars, strail, drawn>>
    /\ spc = "partition"
    /\ spc' = "failed"
    /\ topen' = TempfilesOpenAfterDrop
    /\ UNCHANGED <<orig, src, inplace, dst, bsize, positions, srcpos, tempfiles,
                   pidx, remaining, cursors, left, tpc, queue, wbuf, wpos, srcreads,
                   dstwrites>>

\* Every draw selects the first bucket.
BucketOfFirst(rand, npositions, nsubfiles, subfile_size) == 0

\* The last bucket's range starts one full bucket before the end.
BucketOfLateTail(rand, npositions, nsubfiles, subfile_size) ==
    IF rand < npositions - subfile_size THEN rand \div subfile_size
    ELSE nsubfiles - 1

\* sample_subfiles: the bucket a draw selects.
BucketOf(rand, npositions, nsubfiles, subfile_size) ==
    LET last_subfile_size == npositions % subfile_size
        last_subfile_idx == npositions - last_subfile_size
    IN  IF rand < last_subfile_idx THEN rand \div subfile_size ELSE nsubfiles - 1

\* The main task has returned with an error: the receiver is gone.
ReceiverGone == spc = "failed"

\* A rejection that nevertheless moves the bucket's cursor.
RejectAdvancing(idx) ==
    /\ cursors' = [cursors EXCEPT ![idx] = @ + 1]
    /\ UNCHANGED <<remaining, left, queue, tpc, topen>>

\* if remaining[idx] == 0 { continue; }
Reject(idx) == UNCHANGED <<remaining, cursors, left, queue, tpc, topen>>

\* A read that takes the bucket's records from the end.
ReadLast(file, cursor) == file[Len(file) - cursor]

\* read_exact on the bucket's reader: the record at the file cursor.
ReadNext(file, cursor) == file[cursor + 1]

\* A count that drops with every record read.
LeftAfterAnyRead(nleft, rem) == nleft - 1

\* if remaining[idx] == 0 { remaining_subfiles -= 1; }, `rem` being the
\* counter after its decrement.
LeftAfter(nleft, rem) == IF rem = 0 THEN nleft - 1 ELSE nleft

\* One iteration of the sampling loop for the draw `rand`.
S_Draw(rand) ==
    /\ UNCHANGED <<codecVars, loaderVars, batchVars, strail>>
    /\ tpc = "run"
    /\ left > 0
    /\ LET idx == BucketOf(rand, positions, Len(tempfiles), bsize) + 1 IN
       /\ drawn' = Some([rand |-> rand, rejected |-> remaining[idx] = 0])
       /\ IF remaining[idx] = 0
          THEN Reject(idx)
          ELSE /\ remaining' = [remaining EXCEPT ![idx] = @ - 1]
               /\ cursors' = [cursors EXCEPT ![idx] = @ + 1]
               /\ left' = LeftAfter(left, remaining[idx] - 1)
               /\ IF ReceiverGone
                  THEN /\ tpc' = "failed"
                       /\ topen' = TempfilesOpenAfterDrop
                       /\ UNCHANGED queue
                  ELSE /\ queue' = Append(queue, ReadNext(tempfiles[idx], cursors[idx]))
                       /\ UNCHANGED <<tpc, topen>>
    /\ UNCHANGED <<orig, src, inplace, dst, bsize, spc, positions, srcpos, tempfiles,
                   pidx, wbuf, wpos, srcreads, dstwrites>>

\* read_exact on a bucket fails: the task returns the error.
S_ReadFails ==
    /\ UNCHANGED <<codecVars, loaderVars, batchVars, strail, drawn>>
    /\ tpc = "run"
    /\ left > 0
    /\ tpc' = "failed"
    /\ topen' = TempfilesOpenAfterDrop
    /\ UNCHANGED <<orig, src, inplace, dst, bsize, spc, positions, srcpos, tempfiles,
                   pidx, remaining, cursors, left, queue, wbuf, wpos, srcreads,
                   dstwrites>>

\* Every bucket is exhausted: the task returns Ok(()).
S_Done ==
    /\ UNCHANGED <<codecVars, loaderVars, batchVars, strail, drawn>>
    /\ tpc = "run"
    /\ left = 0
    /\ tpc' = "done"
    /\ topen' = TempfilesOpenAfterDrop
    /\ UNCHANGED <<orig, src, inplace, dst, bsize, spc, positions, srcpos, tempfiles,
                   pidx, remaining, cursors, left, queue, wbuf, wpos, srcreads,
                   dstwrites>>

\* A write that ignores the cursor.
WriteAtStart(file, at, recs) ==
    [i \in 1..(IF Len(recs) > Len(file) THEN Len(recs) ELSE Len(file)) |->
        IF i <= Len(recs) THEN recs[i] ELSE file[i]]

\* `recs` written to a file at record offset `at`.
WriteAt(file, at, recs) ==
    [i \in 1..(IF at + Len(recs) > Len(file) THEN at + Len(recs) ELSE Len(file)) |->
        IF i > at /\ i <= at + Len(recs) THEN recs[i - at] ELSE file[i]]

\* The destination after `recs` went out to it at the cursor.
WriteOut(recs) ==
    /\ IF inplace
       THEN src' = WriteAt(src, wpos, recs) /\ UNCHANGED dst
       ELSE dst' = Some(WriteAt(Unwrap(dst), wpos, recs)) /\ UNCHANGED src
    /\ wpos' = wpos + Len(recs)
    /\ dstwrites' = (dstwrites \/ recs # <<>>)

\* One iteration of the writer loop: recv() a record and write_all it; the
\* BufWriter writes its buffer out first when the record does not fit.
M_Write ==
    /\ UNCHANGED <<codecVars, loaderVars, batchVars, strail, drawn>>
    /\ spc = "write"
    /\ queue # <<>>
    /\ queue' = Tail(queue)
    /\ IF Len(wbuf) + 1 > WriterRecords
       THEN /\ WriteOut(wbuf)
            /\ wbuf' = <<Head(queue)>>
       ELSE /\ wbuf' = Append(wbuf, Head(queue))
            /\ UNCHANGED <<src, dst, wpos, dstwrites>>
    /\ UNCHANGED <<orig, inplace, bsize, spc, positions, srcpos, tempfiles, topen,
                   pidx, remaining, cursors, left, tpc, srcreads>>

\* A write to the destination fails after `k` of the buffered records went
\* out: `?` returns the error, dropping the receiver and the writer.
M_WriteFails ==
    /\ UNCHANGED <<codecVars, loaderVars, batchVars, strail, drawn>>
    /\ spc = "write"
    /\ wbuf # <<>>
    /\ IF queue # <<>> THEN Len(wbuf) + 1 > WriterRecords
                       ELSE tpc \in {"done", "failed"}
    /\ \E k \in 0..(Len(wbuf) - 1) : WriteOut(SubSeq(wbuf, 1, k))
    /\ spc' = "failed"
    /\ UNCHANGED <<orig, inplace, bsize, positions, srcpos, tempfiles, topen, pidx,
                   remaining, cursors, left, tpc, queue, wbuf, srcreads>>

\* recv() returns None (the queue is empty and the sender dropped):
\* writer.flush(), then task.await returns the sampling task's result.
M_Finish ==
    /\ UNCHANGED <<codecVars, loaderVars, batchVars, strail, drawn>>
    /\ spc = "write"
    /\ queue = <<>>
    /\ tpc \in {"done", "failed"}
    /\ WriteOut(wbuf)
    /\ wbuf' = <<>>
    /\ spc' = IF tpc = "done" THEN "ok" ELSE "failed"
    /\ UNCHANGED <<orig, inplace, bsize, positions, srcpos, tempfiles, topen, pidx,
                   remaining, cursors, left, tpc, queue, srcreads>>

ShuffleNext ==
    \/ M_Start
    \/ M_Partition
    \/ M_Open
    \/ M_PartitionFails
    \/ \E rand \in 0..(positions - 1) : S_Draw(rand)
    \/ S_ReadFails
    \/ S_Done
    \/ M_Write
    \/ M_WriteFails
    \/ M_Finish

(***************************************************************************)
(* The batch accumulator (dataloader/batch.rs) and the feature index       *)
(* (dataloader/feature.rs). An f32 is a record: inf is -1, 0 or 1 for      *)
(* -INFINITY, a finite value and INFINITY, and twice is twice the finite   *)
(* value (so that 0.5 is a whole number).                                  *)
(***************************************************************************)
\* The largest capacity a Batch is created with.
MaxBatchCap == 2

MAX_ACTIVE_FEATURES == 64
\* Piece::COUNT, Square::COUNT
Piece_COUNT == 6
Square_COUNT == 64

F32(x) == [inf |-> 0, twice |-> 2 * x]
F32_HALF == [inf |-> 0, twice |-> 1]
F32_INFINITY == [inf |-> 1, twice |-> 0]
F32_NEG_INFINITY == [inf |-> -1, twice |-> 0]

\* A flip that leaves the square where it is.
flip_nothing(square) == square

\* Square::flip_vertical: the same file, the rank mirrored.
flip_vertical(square) == SquareAt(FileOf(square), 7 - RankOf(square))

\* An index with the ownership bit the other way round.
feature_enemy_first(perspective, color, piece, square) ==
    LET sq == IF perspective = "White" THEN square ELSE flip_vertical(square)
        index0 == IF perspective = color THEN 1 ELSE 0
        index1 == index0 * Piece_COUNT + PieceIndex(piece)
    IN  index1 * Square_COUNT + sq

\* feature(perspective, color, piece, square)
feature(perspective, color, piece, square) ==
    LET sq == IF perspective = "White" THEN square ELSE flip_vertical(square)
        index0 == IF perspective = color THEN 0 ELSE 1
        index1 == index0 * Piece_COUNT + PieceIndex(piece)
    IN  index1 * Square_COUNT + sq

\* for color in Color::ALL { for piece in Piece::ALL { for square in .. } }:
\* every (color, piece, square) in the order the loops visit them.
AllPieceSquares ==
    [k \in 1..(2 * Piece_COUNT * Square_COUNT) |->
        <<Color_ALL[((k - 1) \div (Piece_COUNT * Square_COUNT)) + 1],
          Piece_ALL[(((k - 1) \div Square_COUNT) % Piece_COUNT) + 1],
          (k - 1) % Square_COUNT>>]

\* A visit that does not intersect with position.colored(color): every piece
\* is met once under each color.
ActivePiecesAnyColor(pos) ==
    LET On(t) == pos.board[t[3]] # Empty /\ pos.board[t[3]][2] = t[2]
    IN  SelectSeq(AllPieceSquares, On)

\* The (color, piece, square) add_features visits for `pos`, in order.
ActivePieces(pos) ==
    LET On(t) == pos.board[t[3]] = PieceOn(t[1], t[2])
    IN  SelectSeq(AllPieceSquares, On)

\* add_features: the (stm, non_stm) pair add_feature is called with for
\* each piece.
FeaturesOf(pos) ==
    LET act == ActivePieces(pos) IN
    [k \in 1..Len(act) |->
        <<feature(pos.side_to_move, act[k][1], act[k][2], act[k][3]),
          feature(Opposite(pos.side_to_move), act[k][1], act[k][2], act[k][3])>>]

\* add_feature, for every pair of `pairs`: the array after the pairs
\* (entry, pairs[k][which]) went in from slot 2 * total on.
WithFeatures(array, total, entry, pairs, which) ==
    [i \in 1..Len(array) |->
        LET k == i - 2 * total IN
        IF k >= 1 /\ k <= 2 * Len(pairs)
        THEN IF k % 2 = 1 THEN entry ELSE pairs[k \div 2][which]
        ELSE array[i]]

\* An evaluation target that lets a decisive outcome override the stored
\* evaluation.
EvalTargetOutcomeFirst(s) ==
    IF IsSome(s.outcome.winner)
    THEN IF Unwrap(s.outcome.winner) = s.position.side_to_move
         THEN F32_INFINITY ELSE F32_NEG_INFINITY
    ELSE IF IsSome(s.eval) THEN F32(Unwrap(s.eval)) ELSE F32(0)

\* Batch::add: the evaluation target of a sample.
EvalTarget(s) ==
    IF IsSome(s.eval) THEN F32(Unwrap(s.eval))
    ELSE IF IsSome(s.outcome.winner)
         THEN IF Unwrap(s.outcome.winner) = s.position.side_to_move
              THEN F32_INFINITY ELSE F32_NEG_INFINITY
         ELSE F32(0)

\* The outcome seen from White's side, whoever is to move.
OutcomeTargetForWhite(s) ==
    IF IsSome(s.outcome.winner)
    THEN IF Unwrap(s.outcome.winner) = "White"
         THEN F32(1) ELSE F32(0)
    ELSE F32_HALF

\* Batch::add: the outcome target of a sample.
OutcomeTarget(s) ==
    IF IsSome(s.outcome.winner)
    THEN IF Unwrap(s.outcome.winner) = s.position.side_to_move
         THEN F32(1) ELSE F32(0)
    ELSE F32_HALF

\* The position after 1. e3 e6 2. e4.
AfterE3E6E4 ==
    PlayMove(PlayMove(PlayMove(Position_new_initial, 12, 20), 52, 44), 20, 28)

\* The position after 1. e3 e5: the board of AfterE3E6E4 seen from the other
\* side, with the other side to move.
AfterE3E5 == PlayMove(PlayMove(Position_new_initial, 12, 20), 52, 36)

\* The position after 1. e4 d5 2. exd5: 31 pieces, Black to move.
AfterExd5 ==
    PlayMove(PlayMove(PlayMove(Position_new_initial, 12, 28), 51, 35), 28, 35)

\* The samples handed to Batch::add: the position after 1. e3 e5 (White to
\* move) and the position after 1. e3 e6 2. e4 (Black to move), each with
\* every outcome and no evaluation, and each with an evaluation as a game
\* Black won.
BatchPositions == {AfterE3E6E4, AfterE3E5, AfterExd5}
BatchSamples ==
    [position : {AfterE3E5, AfterE3E6E4}, outcome : Outcomes, eval : {None}]
        \cup [position : {AfterE3E5, AfterE3E6E4},
              outcome : {[winner |-> Some("Black")]}, eval : {Some(-202)}]

\* Samples of positions with 31 and with 32 pieces, drawn games without an
\* evaluation.
CoordinateSamples ==
    [position : {AfterExd5, AfterE3E6E4, AfterE3E5},
     outcome : {[winner |-> None]}, eval : {None}]

\* add_features of every position handed to Batch::add, computed once.
Features == [pos \in BatchPositions |-> FeaturesOf(pos)]

BatchInitWith(pcs) ==
    /\ bpc \in pcs
    /\ entries = 0
    /\ capacity = 0
    /\ total_features = 0
    /\ stm_features = <<>>
    /\ non_stm_features = <<>>
    /\ eval_centipawns = <<>>
    /\ outcomes = <<>>
    /\ added = <<>>

\* batch.rs:23-24: vec![0; 2 * MAX_ACTIVE_FEATURES * capacity]
FeatureSlots(cap) == 2 * MAX_ACTIVE_FEATURES * cap

\* Batch::new(cap)
B_New(cap) ==
    /\ UNCHANGED <<codecVars, loaderVars, shuffleVars>>
    /\ bpc = "none"
    /\ bpc' = "ready"
    /\ entries' = 0
    /\ capacity' = cap
    /\ total_features' = 0
    /\ stm_features' = [i \in 1..FeatureSlots(cap) |-> 0]
    /\ non_stm_features' = [i \in 1..FeatureSlots(cap) |-> 0]
    /\ eval_centipawns' = [i \in 1..cap |-> F32(0)]
    /\ outcomes' = [i \in 1..cap |-> F32(0)]
    /\ added' = <<>>

\* A clear that resets the entry count and leaves total_features as it is.
B_ClearEntriesOnly ==
    /\ UNCHANGED <<codecVars, loaderVars, shuffleVars>>
    /\ bpc = "ready"
    /\ entries' = 0
    /\ added' = <<>>
    /\ UNCHANGED <<bpc, capacity, total_features, stm_features, non_stm_features,
                   eval_centipawns, outcomes>>

\* Batch::clear: the arrays keep what they held.
B_Clear ==
    /\ UNCHANGED <<codecVars, loaderVars, shuffleVars>>
    /\ bpc = "ready"
    /\ entries' = 0
    /\ total_features' = 0
    /\ added' = <<>>
    /\ UNCHANGED <<bpc, capacity, stm_features, non_stm_features, eval_centipawns,
                   outcomes>>

\* add_feature: self.stm_features[index] with index = 2 * total_features
\* panics when the index is outside the array; the number of pairs that can
\* still be written before that.
PairsThatFit(array, total) ==
    IF 2 * total >= Len(array) THEN 0 ELSE (Len(array) \div 2) - total

\* A capacity check that lets one entry too many in.
AddFitsOneMore(n, cap) == n <= cap

\* assert!(self.entries < self.capacity)
AddFits(n, cap) == n < cap

\* Batch::add(sample)
B_Add(s) ==
    /\ UNCHANGED <<codecVars, loaderVars, shuffleVars>>
    /\ bpc = "ready"
    /\ IF ~AddFits(entries, capacity)
       THEN /\ bpc' = "panicked"
            /\ UNCHANGED <<entries, capacity, total_features, stm_features,
                           non_stm_features, eval_centipawns, outcomes, added>>
       ELSE LET all == Features[s.position]
                room == PairsThatFit(stm_features, total_features)
                fits == Len(all) <= room
                pairs == IF fits THEN all ELSE SubSeq(all, 1, room)
            IN
            /\ eval_centipawns' =
                  [i \in 1..Len(eval_centipawns) |->
                      IF i = entries + 1 THEN EvalTarget(s) ELSE eval_centipawns[i]]
            /\ outcomes' =
                  [i \in 1..Len(outcomes) |->
                      IF i = entries + 1 THEN OutcomeTarget(s) ELSE outcomes[i]]
            /\ stm_features' =
                  WithFeatures(stm_features, total_features, entries, pairs, 1)
            /\ non_stm_features' =
                  WithFeatures(non_stm_features, total_features, entries, pairs, 2)
            /\ total_features' = total_features + Len(pairs)
            /\ IF fits
               THEN /\ entries' = entries + 1
                    /\ added' = Append(added, s)
                    /\ UNCHANGED <<bpc, capacity>>
               ELSE /\ bpc' = "panicked"
                    /\ UNCHANGED <<entries, capacity, added>>

BatchNext ==
    \/ \E cap \in 0..MaxBatchCap : B_New(cap)
    \/ B_Clear
    \/ \E s \in BatchSamples : B_Add(s)

(***************************************************************************)
(* The specifications: each drives one subsystem and leaves the others at  *)
(* rest.                                                                   *)
(***************************************************************************)
CodecInit ==
    CodecInitWith(Lines, 1..MaxExtra) /\ LoaderInitWith({<<>>}, {1}, {0})
        /\ ShuffleInitWith({0}, {TRUE}, {None}, {1}, {0}) /\ BatchInitWith({"none"})

SpecCodec == CodecInit /\ [][CodecNext]_vars

\* Decoding records as they come from a file: packed samples of short games,
\* as written or with one change.
DecodeInit ==
    CodecInitWith({RookLine, LiftLine, EnPassantLine}, {}) /\ LoaderInitWith({<<>>}, {1}, {0})
        /\ ShuffleInitWith({0}, {TRUE}, {None}, {1}, {0}) /\ BatchInitWith({"none"})

DecodeNext ==
    \/ Play
    \/ \E outcome \in Outcomes, eval \in Evals : Pack(outcome, eval)
    \/ \E kind \in TamperKinds : Tamper(kind)
    \/ Unpack

SpecDecode == DecodeInit /\ [][DecodeNext]_vars

LoaderInit ==
    LoaderInitWith(Files, 1..MaxCap, {0}) /\ CodecInitWith({<<>>}, {})
        /\ ShuffleInitWith({0}, {TRUE}, {None}, {1}, {0}) /\ BatchInitWith({"none"})

SpecLoader == LoaderInit /\ [][LoaderNext]_vars

\* The worker thread runs: a step of it that can be taken is taken.
FairSpecLoader == SpecLoader /\ WF_vars(Worker(ChannelBound))

\* The loader on non-empty files of valid records, the longest larger than
\* the read buffer, when no read of the file fails.
StreamInit ==
    LoaderInitWith({Iota(n) : n \in 1..(MaxValid + 1)}, 1..MaxCap, {0})
        /\ CodecInitWith({<<>>}, {})
        /\ ShuffleInitWith({0}, {TRUE}, {None}, {1}, {0}) /\ BatchInitWith({"none"})

StreamNext ==
    \/ W_NewBatch
    \/ W_Load
    \/ W_Send(ChannelBound)
    \/ C_Load
    \/ C_Recv
    \/ C_Drop

\* The worker thread runs, and a consumer blocked in recv() is woken when a
\* batch is in the channel.
FairSpecStream ==
    /\ StreamInit
    /\ [][StreamNext]_vars
    /\ WF_vars(W_NewBatch \/ W_Load \/ W_Send(ChannelBound))
    /\ WF_vars(C_Recv)

\* The loader with the channel bound of the code, on the files of one valid
\* record (every batch is that record).
ChannelInit ==
    LoaderInitWith({<<1>>, <<1, -1>>}, {1}, {0}) /\ CodecInitWith({<<>>}, {})
        /\ ShuffleInitWith({0}, {TRUE}, {None}, {1}, {0}) /\ BatchInitWith({"none"})

ChannelNext ==
    \/ W_NewBatch
    \/ W_Load
    \/ W_FillFails
    \/ W_Send(SYNC_CHANNEL_BOUND)
    \/ C_Load
    \/ C_Recv
    \/ C_Drop

SpecChannel == ChannelInit /\ [][ChannelNext]_vars

ShuffleInit ==
    ShuffleInitWith(0..MaxRecords, BOOLEAN, OldOutputs, 1..MaxBucket, {0})
        /\ CodecInitWith({<<>>}, {}) /\ LoaderInitWith({<<>>}, {1}, {0})
        /\ BatchInitWith({"none"})

SpecShuffle == ShuffleInit /\ [][ShuffleNext]_vars

\* A draw that selects a bucket with records left.
S_Progress ==
    \E rand \in 0..(positions - 1) : S_Draw(rand) /\ remaining' # remaining

\* The sampling task is a spawned tokio task: it keeps running, also after
\* the main task has returned, and its uniform draws do not avoid the
\* buckets that have records left forever.
FairSpecShuffle == SpecShuffle /\ WF_vars(S_Progress \/ S_ReadFails \/ S_Done)

\* The pass when no read and no write fails.
InterleaveNext ==
    \/ M_Start
    \/ M_Partition
    \/ M_Open
    \/ \E rand \in 0..(positions - 1) : S_Draw(rand)
    \/ S_Done
    \/ M_Write
    \/ M_Finish

\* Both tasks keep running and the draws are fair.
FairSpecInterleave ==
    /\ ShuffleInit
    /\ [][InterleaveNext]_vars
    /\ WF_vars(S_Progress)
    /\ WF_vars(S_Done)
    /\ WF_vars(M_Start \/ M_Partition \/ M_Open \/ M_Write \/ M_Finish)

BatchInit ==
    BatchInitWith({"none"}) /\ CodecInitWith({<<>>}, {})
        /\ LoaderInitWith({<<>>}, {1}, {0}) /\ ShuffleInitWith({0}, {TRUE}, {None}, {1}, {0})

SpecBatch == BatchInit /\ [][BatchNext]_vars

\* The accumulator fed with positions of different piece counts.
CoordinateInit ==
    BatchInitWith({"none"}) /\ CodecInitWith({<<>>}, {})
        /\ LoaderInitWith({<<>>}, {1}, {0}) /\ ShuffleInitWith({0}, {TRUE}, {None}, {1}, {0})

CoordinateNext ==
    \/ \E cap \in 0..MaxBatchCap : B_New(cap)
    \/ B_Clear
    \/ \E s \in CoordinateSamples : B_Add(s)

SpecCoordinates == CoordinateInit /\ [][CoordinateNext]_vars

\* Files that need not end on a record boundary: a run of the shuffle tool
\* on a source of up to MaxRecords records, or a loader on a dataset of valid
\* records, each file with up to MaxTrail bytes after its last whole record.
AlignmentInit ==
    /\ CodecInitWith({<<>>}, {}) /\ BatchInitWith({"none"})
    /\ \/ ShuffleInitWith(1..MaxRecords, BOOLEAN, {None}, 1..MaxBucket, 0..MaxTrail)
             /\ LoaderInitWith({<<>>}, {1}, {0})
       \/ ShuffleInitWith({0}, {TRUE}, {None}, {1}, {0})
             /\ LoaderInitWith({Iota(n) : n \in 1..(MaxValid + 1)}, 1..MaxCap,
                               0..MaxTrail)

AlignmentNext ==
    \/ orig # <<>> /\ ShuffleNext
    \/ lfile # <<>> /\ LoaderNext

SpecAlignment == AlignmentInit /\ [][AlignmentNext]_vars

(***************************************************************************)
(* Properties.                                                             *)
(***************************************************************************)
Count(seq, x) == Cardinality({i \in 1..Len(seq) : seq[i] = x})

\* The two sequences hold the same records, each as often.
SameRecords(a, b) ==
    /\ Len(a) = Len(b)
    /\ \A x \in Range(a) \cup Range(b) : Count(a, x) = Count(b, x)

\* C1: Round-trip law. Whenever pack accepted a sample and the record was
\* unpacked, unpack succeeded and returned a sample equal to the one packed
\* (position with its castling rights, en-passant target and clocks, outcome,
\* evaluation present or absent).
RoundTrip ==
    IsSome(unpacked) => Unwrap(unpacked) = Ok(Unwrap(sample))

\* What the shuffle pass left at the destination.
Output == IF inplace THEN src ELSE IF IsSome(dst) THEN Unwrap(dst) ELSE <<>>

\* C2: Shuffle is a permutation. When the pass has completed without error,
\* the destination (the output path, or the source when shuffling in place)
\* holds exactly the N records of the source, each as often as the source
\* held it: none duplicated, none dropped.
ShufflePermutes ==
    spc = "ok" => SameRecords(Output, orig)

ShufflePermutesReached ==
    /\ spc = "ok"
    /\ inplace
    /\ Len(orig) = MaxRecords
    /\ bsize = MaxBucket
    /\ src # orig
    /\ SameRecords(src, orig)

\* The batches handed to the channel so far that still exist: those waiting
\* in the channel and the one the consumer received last.
Delivered == Range(channel) \cup (IF IsSome(got) THEN {Unwrap(got)} ELSE {})

AllValid(file) == \A i \in 1..Len(file) : file[i] > 0

OneCorrupt(file) == Cardinality({i \in 1..Len(file) : file[i] <= 0}) = 1

IsValidId(id) == id > 0

\* A file of N >= 1 valid records that fits the read buffer, read with batch
\* capacity N.
CyclingCase ==
    /\ Len(lfile) >= 1
    /\ AllValid(lfile)
    /\ Len(lfile) <= BufferRecords
    /\ lcap = Len(lfile)

\* C3: Loader cycling. For a file of N >= 1 valid records, N no larger than
\* the read buffer, and batch capacity N, every batch the worker delivers is a
\* permutation of the whole file (so two consecutive batches hold each record
\* exactly twice) and no record fails to decode; the worker gets the later
\* batches by rewinding at end of file.
LoaderCycles ==
    CyclingCase =>
        /\ wcause # "unpack"
        /\ \A batch \in Delivered : SameRecords(batch, lfile)

LoaderCyclesReached ==
    /\ CyclingCase
    /\ Len(lfile) = BufferRecords
    /\ nloads = 2
    /\ rewound
    /\ IsSome(got)
    /\ SameRecords(Unwrap(got), lfile)

\* A file of N valid records and one record that fails to decode, read with
\* batch capacity N + 1.
CorruptCase ==
    /\ OneCorrupt(lfile)
    /\ Len(lfile) >= 2
    /\ Len(lfile) <= BufferRecords
    /\ lcap = Len(lfile)

\* C4: Corrupt record skip. For a file of N valid records and one record that
\* fails to decode, read with batch capacity N + 1, every batch delivered
\* holds exactly the N valid records, and the worker never aborts on the
\* failing record.
CorruptRecordSkipped ==
    CorruptCase =>
        /\ wcause # "unpack"
        /\ \A batch \in Delivered : SameRecords(batch, SelectSeq(lfile, IsValidId))

\* Both rooks of both colors are castling-eligible.
AllRights(pos) ==
    \A c \in Colors : IsSome(pos.castling[c].king_side)
                        /\ IsSome(pos.castling[c].queen_side)

\* The file of the castling rook of `color` beyond the king (side = 1) or
\* before it (side = -1).
RookFile(pos, color, side) ==
    LET king == CHOOSE sq \in Squares : pos.board[sq] = PieceOn(color, "King")
    IN  CHOOSE f \in 0..7 :
            /\ (f - FileOf(king)) * side > 0
            /\ pos.board[SquareAt(f, BackRank(color))] = PieceOn(color, "Rook")
            /\ CastlingContains(pos.castling[color], f)

\* C5: Castling disambiguation. A sample in which both rooks of both colors
\* are castling-eligible unpacks, after pack, to a position with the same
\* board in which, for each color, the king-side right is the file of the rook
\* on the king's side of the king and the queen-side right the file of the
\* rook on the queen's side.
CastlingDisambiguated ==
    (IsSome(unpacked) /\ AllRights(Unwrap(sample).position)) =>
        /\ IsOk(Unwrap(unpacked))
        /\ LET x == Unwrap(sample).position
               y == Unwrap(unpacked).value.position
           IN  /\ y.board = x.board
               /\ \A c \in Colors :
                     /\ y.castling[c].king_side = Some(RookFile(x, c, 1))
                     /\ y.castling[c].queen_side = Some(RookFile(x, c, -1))

CastlingDisambiguatedReached ==
    /\ IsSome(unpacked)
    /\ AllRights(Unwrap(sample).position)
    /\ ply >= 4
    /\ IsOk(Unwrap(unpacked))
    /\ Unwrap(unpacked).value.position.castling
         = [c \in Colors |-> [king_side |-> Some(7), queen_side |-> Some(0)]]

\* The occupied squares of the sample handed to pack.
PackedCount == Cardinality(Occupied(Unwrap(sample).position))

\* C6: Capacity boundary. pack succeeds on a sample with exactly 32 occupied
\* squares, and on a sample with 33 or more it returns
\* PackError::TooManyPieces and no record.
CapacityBoundary ==
    IsSome(packed) =>
        /\ PackedCount = 32 => IsOk(Unwrap(packed))
        /\ PackedCount >= 33 => Unwrap(packed) = Err("TooManyPieces")

CapacityBoundaryReached ==
    /\ IsSome(packed)
    /\ PackedCount = 33
    /\ Unwrap(packed) = Err("TooManyPieces")

\* C7: Backpressure. The channel never holds more than 32 batches; the
\* worker's push goes through only when the channel holds fewer than 32 (it
\* waits while the channel is full), and the consumer's load ends with a batch
\* only when the channel holds one, which is the oldest (it waits while the
\* channel is empty).
Backpressure ==
    /\ [](Len(channel) <= SYNC_CHANNEL_BOUND)
    /\ [][/\ Len(channel') > Len(channel) => Len(channel) < SYNC_CHANNEL_BOUND
          /\ (cpc = "loading" /\ cpc' = "idle") =>
                (channel # <<>> /\ got' = Some(Head(channel)))]_vars

BackpressureReached ==
    /\ Len(channel) = SYNC_CHANNEL_BOUND
    /\ wpc = "send"
    /\ handle = "alive"
    /\ nloads >= 1

\* C8: Cooperative shutdown. Once the handle is dropped the worker eventually
\* stops, and the thread returns only from its push, between two batches and
\* after the drop: never while a record is being read, decoded or added.
CooperativeShutdown ==
    /\ (handle = "dropped") ~> WorkerGone
    /\ [][wpc' = "returned" => (wpc = "send" /\ handle = "dropped")]_vars

CooperativeShutdownReached ==
    /\ handle = "dropped"
    /\ wpc = "returned"
    /\ wbatch # <<>>
    /\ nloads >= 1

\* C9: Consumer interface. A load ends by returning a batch or, when the
\* worker side has disconnected, a stream-closed result: it never ends any
\* other way.
LoadReturns ==
    cpc \in {"idle", "loading", "closed", "stream_closed"}

\* C10: No partial output on failure. When the pass has returned an error, an
\* in-place source still holds its original records and nothing has been
\* written to a separate output path.
NoPartialOutput ==
    spc = "failed" => IF inplace THEN src = orig ELSE ~dstwrites

InterleaveTerminates ==
    /\ <>(/\ spc = "ok"
          /\ tpc = "done"
          /\ left = 0
          /\ \A i \in 1..Len(remaining) : remaining[i] = 0
          /\ queue = <<>>
          /\ wpos = Len(orig))
    /\ [](Len(orig) = 0 => drawn = None)

InterleaveTerminatesReached ==
    /\ spc = "ok"
    /\ tpc = "done"
    /\ Len(orig) = MaxRecords
    /\ wpos = MaxRecords
    /\ Len(tempfiles) >= 2
    /\ ~inplace

EntryFeatures(arr, e) ==
    {arr[2 * j] : j \in {k \in 1..total_features : arr[2 * k - 1] = e}}

\* The rank-mirrored square.
Mirror(sq) == ((7 - (sq \div 8)) * 8) + (sq % 8)

\* Q is P with the board vertically mirrored, the piece colors swapped and
\* the side to move swapped.
IsColorFlip(P, Q) ==
    /\ Q.side_to_move # P.side_to_move
    /\ \A sq \in 0..63 :
          IF P.board[sq] = <<>> THEN Q.board[Mirror(sq)] = <<>>
          ELSE Q.board[Mirror(sq)] =
                   <<IF P.board[sq][1] = "White" THEN "Black" ELSE "White",
                     P.board[sq][2]>>

\* C14 as stated: for two entries whose positions are color flips of each
\* other, the side-to-move features of one are the non-side-to-move features
\* of the other.
FeatureSymmetryAcross ==
    \A e1, e2 \in 1..Len(added) :
        IsColorFlip(added[e1].position, added[e2].position) =>
            EntryFeatures(stm_features, e1 - 1) = EntryFeatures(non_stm_features, e2 - 1)

\* C14: Feature symmetry. For a position P and its color-flipped counterpart
\* P', the side-to-move-perspective features of P are the
\* side-to-move-perspective features of P', and the non-side-to-move ones of
\* P are the non-side-to-move ones of P'.
FeatureSymmetry ==
    \A e1, e2 \in 1..Len(added) :
        IsColorFlip(added[e1].position, added[e2].position) =>
            /\ EntryFeatures(stm_features, e1 - 1) = EntryFeatures(stm_features, e2 - 1)
            /\ EntryFeatures(non_stm_features, e1 - 1) =
                   EntryFeatures(non_stm_features, e2 - 1)

FeatureSymmetryReached ==
    /\ entries = 2
    /\ added[1].position = AfterE3E6E4
    /\ IsColorFlip(added[1].position, added[2].position)
    /\ Cardinality(EntryFeatures(stm_features, 0)) = 32
    /\ Cardinality(EntryFeatures(stm_features, 1)) = 32

\* The index the formula (ownership * 6 + pieceKind) * 64 + sq' gives.
FormulaIndex(ownership, pieceKind, sq) == (ownership * 6 + pieceKind) * 64 + sq

Ownership(perspective, color) == IF color = perspective THEN 0 ELSE 1

PieceKind(piece) ==
    CASE piece = "Pawn" -> 0 [] piece = "Knight" -> 1 [] piece = "Bishop" -> 2
      [] piece = "Rook" -> 3 [] piece = "Queen" -> 4 [] piece = "King" -> 5

Seen(perspective, sq) == IF perspective = "White" THEN sq ELSE Mirror(sq)

\* The indices the formula gives for the pieces of `pos`, seen by `perspective`.
FormulaFeatures(pos, perspective) ==
    {FormulaIndex(Ownership(perspective, pos.board[sq][1]), PieceKind(pos.board[sq][2]),
                  Seen(perspective, sq)) : sq \in {q \in 0..63 : pos.board[q] # <<>>}}

PieceCount(pos) == Cardinality({q \in 0..63 : pos.board[q] # <<>>})

\* feature agrees with the formula on every argument, every index lies in
\* [0, 768), and distinct triples have distinct indices.
FormulaEverywhere ==
    /\ \A perspective \in Colors, color \in Colors, k \in 1..6, sq \in 0..63 :
          /\ feature(perspective, color, Piece_ALL[k], sq) =
                 FormulaIndex(Ownership(perspective, color), k - 1, Seen(perspective, sq))
          /\ feature(perspective, color, Piece_ALL[k], sq) \in 0..767
    /\ Cardinality({feature("White", color, Piece_ALL[k], sq) :
                        color \in Colors, k \in 1..6, sq \in 0..63}) = 768
    /\ Cardinality({feature("Black", color, Piece_ALL[k], sq) :
                        color \in Colors, k \in 1..6, sq \in 0..63}) = 768

\* C15: Feature index formula. feature(perspective, color, piece, square) is
\* (ownership * 6 + pieceKind) * 64 + sq', ownership 0 for the perspective's
\* own pieces and 1 otherwise, sq' the square for White's perspective and its
\* vertical mirror for Black's; so the indices a batch holds for an entry are
\* the formula's, lie in [0, 768), and are one per piece.
FeatureIndexFormula ==
    /\ FormulaEverywhere
    /\ \A e \in 1..Len(added) :
          LET pos == added[e].position IN
          /\ EntryFeatures(stm_features, e - 1) = FormulaFeatures(pos, pos.side_to_move)
          /\ EntryFeatures(non_stm_features, e - 1) =
                 FormulaFeatures(pos, Opposite(pos.side_to_move))
          /\ EntryFeatures(stm_features, e - 1) \subseteq 0..767
          /\ EntryFeatures(non_stm_features, e - 1) \subseteq 0..767
          /\ Cardinality(EntryFeatures(stm_features, e - 1)) = PieceCount(pos)
          /\ Cardinality(EntryFeatures(non_stm_features, e - 1)) = PieceCount(pos)

FeatureIndexFormulaReached ==
    /\ bpc = "ready"
    /\ entries = 1
    /\ added[1].position.side_to_move = "Black"
    /\ FormulaIndex(1, 0, Mirror(28)) \in EntryFeatures(stm_features, 0)
    /\ FormulaIndex(0, 0, 28) \in EntryFeatures(non_stm_features, 0)

UnpackErrors ==
    {"InvalidPosition", "InvalidOutcome", "InvalidSideToMove", "InvalidEnPassant",
     "TooManyPieces"}

\* C16: Decode is total. Whatever the record holds, unpack returns a Sample
\* or one of the five format errors; it never aborts.
DecodeTotal ==
    IsSome(unpacked) =>
        \/ Unwrap(unpacked).tag = "Ok"
        \/ Unwrap(unpacked).tag = "Err" /\ Unwrap(unpacked).err \in UnpackErrors

\* C17: Accumulator capacity. After any sequence of new/clear/add the batch
\* holds at most `capacity` entries and its capacity is the one it was
\* created with; an add on a full batch fails its assertion and stores
\* nothing, and only such an add fails.
AccumulatorCapacity ==
    /\ [](bpc # "none" => entries <= capacity)
    /\ [][bpc = "ready" => capacity' = capacity]_vars
    /\ [][(bpc = "ready" /\ bpc' = "panicked") =>
              /\ entries = capacity
              /\ UNCHANGED <<entries, total_features, stm_features, non_stm_features,
                             eval_centipawns, outcomes>>]_vars
    /\ [][(bpc = "ready" /\ entries = capacity) =>
              (bpc' = "panicked" \/ entries' = 0)]_vars

AccumulatorCapacityReached ==
    /\ bpc = "panicked"
    /\ capacity = MaxBatchCap
    /\ entries = capacity
    /\ Len(added) = capacity

\* C18: Evaluation optionality. pack stores the sentinel exactly when the
\* evaluation is absent, and a sample that was packed and unpacked has the
\* evaluation it was packed with: Some(e) for every 16-bit e, None for None.
EvalOptional ==
    /\ (IsSome(packed) /\ IsOk(Unwrap(packed))) =>
          (Unwrap(packed).value.eval = NO_EVAL <=> Unwrap(sample).eval = None)
    /\ (IsSome(unpacked) /\ IsOk(Unwrap(unpacked))) =>
          Unwrap(unpacked).value.eval = Unwrap(sample).eval

\* The draws sample_subfiles maps to bucket number i (counted from 0).
DrawsOf(i) ==
    {r \in 0..(positions - 1) : BucketOf(r, positions, Len(tempfiles), bsize) = i}

\* C19: Draw-to-bucket mapping. With N >= 1 records in K = ceil(N / B)
\* buckets, every draw in [0, N) maps to a bucket in [0, K); the draws of
\* bucket i are one contiguous range of as many values as the bucket was
\* created with, whatever the remaining counters are by now; and the bucket
\* a draw consumes from is the one the mapping gives.
DrawMapping ==
    /\ []((tpc = "run" /\ positions >= 1) =>
            /\ Len(tempfiles) = (positions + bsize - 1) \div bsize
            /\ \A r \in 0..(positions - 1) :
                  BucketOf(r, positions, Len(tempfiles), bsize) \in 0..(Len(tempfiles) - 1)
            /\ \A i \in 1..Len(tempfiles) :
                  /\ Cardinality(DrawsOf(i - 1)) = Len(tempfiles[i])
                  /\ \A a, b \in DrawsOf(i - 1) : \A c \in a..b : c \in DrawsOf(i - 1))
    /\ [][(tpc = "run" /\ Len(remaining') = Len(remaining)) =>
              \A i \in 1..Len(remaining) :
                  remaining'[i] # remaining[i] =>
                      /\ IsSome(drawn')
                      /\ i = BucketOf(Unwrap(drawn').rand, positions, Len(tempfiles),
                                      bsize) + 1]_vars

DrawMappingReached ==
    /\ tpc = "run"
    /\ positions = MaxRecords
    /\ bsize = MaxBucket
    /\ IsSome(drawn)
    /\ ~Unwrap(drawn).rejected
    /\ Unwrap(drawn).rand = positions - 1
    /\ remaining[Len(remaining)] = 0
    /\ left > 0

\* C20: Rejection leaves state unchanged. A draw that selects a bucket whose
\* remaining counter is 0 reads no record, moves no cursor, changes no
\* remaining counter, emits nothing and ends nothing: the loop is where it
\* was, and only a later draw can make progress.
RejectionUnchanged ==
    [][(drawn' # drawn /\ Unwrap(drawn').rejected) =>
          /\ remaining[BucketOf(Unwrap(drawn').rand, positions, Len(tempfiles), bsize) + 1] = 0
          /\ UNCHANGED <<remaining, cursors, left, queue, tpc, topen, tempfiles, src,
                         dst, wbuf, wpos, spc>>]_vars

RejectionUnchangedReached ==
    /\ tpc = "run"
    /\ left > 0
    /\ IsSome(drawn)
    /\ Unwrap(drawn).rejected
    /\ queue # <<>>

RECURSIVE SumSeq(_)
SumSeq(seq) == IF seq = <<>> THEN 0 ELSE Head(seq) + SumSeq(Tail(seq))

Sizes(files) == [i \in 1..Len(files) |-> Len(files[i])]

\* The source records number from..to - 1 (counted from 0), in source order.
SourceSlice(from, to) == [k \in 1..(to - from) |-> orig[from + k]]

\* The partition loop has run to its end.
Partitioned == spc # "start" /\ pidx = Len(tempfiles)

\* C21: Partition shape. A source of N records and bucket capacity B is cut
\* into exactly ceil(N / B) buckets; bucket i holds a permutation of the
\* source slice [i * B, min((i + 1) * B, N)), so no bucket is empty, all but
\* possibly the last hold B records, the sizes sum to N, and the remaining
\* counters start as these sizes.
PartitionShape ==
    Partitioned =>
        LET N == Len(orig)
            B == bsize
            K == Len(tempfiles)
        IN  /\ K * B >= N
            /\ (K - 1) * B < N \/ (K = 0 /\ N = 0)
            /\ \A i \in 1..K :
                  /\ SameRecords(tempfiles[i],
                                 SourceSlice((i - 1) * B, IF i * B < N THEN i * B ELSE N))
                  /\ tempfiles[i] # <<>>
                  /\ i < K => Len(tempfiles[i]) = B
            /\ SumSeq(Sizes(tempfiles)) = N
            /\ Len(remaining) = K
            /\ tpc = "idle" => remaining = Sizes(tempfiles)

PartitionShapeReached ==
    /\ Partitioned
    /\ tpc = "idle"
    /\ spc = "partition"
    /\ Len(orig) = MaxRecords
    /\ bsize = MaxBucket
    /\ Len(tempfiles) = 2
    /\ tempfiles[1] = <<2, 1>>
    /\ remaining = <<2, 1>>

\* The records the sampling task has emitted, in emission order: those
\* written to the destination, those in the writer's buffer, those queued.
Emitted == SubSeq(Output, 1, wpos) \o wbuf \o queue

\* The records of `seq` that bucket i holds, in the order of `seq`.
FromBucket(seq, i) ==
    LET In(x) == x \in Range(tempfiles[i]) IN SelectSeq(seq, In)

\* C22: Sequential bucket reads and ordered writing. While the pass writes
\* and when it has ended with Ok, the records emitted from each bucket are,
\* in emission order, the bucket file's records up to its cursor, each once;
\* so at the end the destination holds every bucket's records in the order
\* the bucket file stores them.
OrderedEmission ==
    /\ spc \in {"write", "ok"} =>
          \A i \in 1..Len(tempfiles) :
              FromBucket(Emitted, i) = SubSeq(tempfiles[i], 1, cursors[i])
    /\ spc = "ok" =>
          /\ Len(Output) = Len(orig)
          /\ \A i \in 1..Len(tempfiles) : FromBucket(Output, i) = tempfiles[i]

OrderedEmissionReached ==
    /\ spc = "ok"
    /\ inplace
    /\ Len(orig) = MaxRecords
    /\ bsize = MaxBucket
    /\ tempfiles[1] = <<2, 1>>
    /\ Output = <<2, 3, 1>>

\* C23: In-place ordering. When the pass shuffles in place, the write phase
\* begins, and the source is first overwritten, only after the partition
\* loop has read every source record into a temporary bucket; no source read
\* follows a write, however the sampling and the writing interleave.
InPlaceOrdering ==
    /\ []((inplace /\ (spc = "write" \/ dstwrites \/ src # orig)) =>
            /\ srcreads = Len(orig)
            /\ SumSeq(Sizes(tempfiles)) = Len(orig))
    /\ [][(inplace /\ srcreads' # srcreads) => (~dstwrites' /\ src' = orig)]_vars

InPlaceOrderingReached ==
    /\ inplace
    /\ spc = "write"
    /\ tpc = "run"
    /\ left > 0
    /\ dstwrites
    /\ src # orig
    /\ srcreads = MaxRecords

\* C24: Interleave bookkeeping. At every iteration of the sampling loop,
\* remaining_subfiles is the number of buckets with a remaining counter above
\* 0, each remaining counter is the bucket's original size minus the records
\* already taken from it and is never negative, and the records emitted so
\* far number N minus the sum of the remaining counters.
InterleaveBookkeeping ==
    tpc = "run" =>
        /\ left = Cardinality({i \in 1..Len(remaining) : remaining[i] > 0})
        /\ \A i \in 1..Len(remaining) :
              /\ remaining[i] = Len(tempfiles[i]) - cursors[i]
              /\ remaining[i] >= 0
        /\ SumSeq(cursors) = Len(orig) - SumSeq(remaining)
        /\ spc = "write" => Len(Emitted) = Len(orig) - SumSeq(remaining)

InterleaveBookkeepingReached ==
    /\ tpc = "run"
    /\ spc = "write"
    /\ Len(orig) = MaxRecords
    /\ bsize = MaxBucket
    /\ remaining = <<1, 0>>
    /\ left = 1
    /\ Len(Emitted) = 2

\* C25: Batches are completed before hand-off. For a non-empty file, with or
\* without records that fail decode, every batch the worker has pushed onto
\* the channel holds as many entries as its capacity.
BatchesComplete ==
    Len(lfile) >= 1 => \A batch \in Delivered : Len(batch) = lcap

\* C26: Windowed consumption. The buffer is refilled only when it is empty;
\* the records read since the last rewind are each either still in the
\* buffer or were fed to unpack exactly once; and a new pass over the file
\* begins only when the read at the cursor returns nothing, by when every
\* record of the file has been consumed exactly once.
WindowedConsumption ==
    /\ [](/\ lpos <= Len(lfile)
          /\ \A id \in RecordIds :
                consumed[id] + Count(lbuffer, id) =
                    Count(SubSeq(lfile, 1, IF lpos <= Len(lfile) THEN lpos ELSE 0), id))
    /\ [][lpos' # lpos => lbuffer = <<>>]_vars
    /\ [][(\E id \in RecordIds : consumed'[id] < consumed[id]) =>
              /\ lbuffer = <<>>
              /\ lpos = Len(lfile)
              /\ \A id \in RecordIds : consumed[id] = Count(lfile, id)]_vars

WindowedConsumptionReached ==
    /\ rewound
    /\ Len(lfile) = MaxValid + 1
    /\ lpos = BufferRecords
    /\ Len(lbuffer) = 1
    /\ \E id \in RecordIds : consumed[id] = 1
    /\ wpc \in {"load", "send"}

\* The 4-bit slot number n (from 0) of a record's piece table: the low
\* nibble of byte n / 2 for even n, the high nibble for odd n.
Slot(rec, n) ==
    LET byte == rec.pieces[(n \div 2) + 1]
    IN  IF n % 2 = 0 THEN byte % 16 ELSE byte \div 16

\* The occupied square with exactly n occupied squares below it.
NthSquare(rec, n) ==
    CHOOSE sq \in rec.occupied : Cardinality({q \in rec.occupied : q < sq}) = n

ColorBit(color) == IF color = "White" THEN 8 ELSE 0

\* The board and castling rights unpack's decode loop leaves in `setup`.
SetupOf(rec) == UnpackPieces(rec.pieces, SquareSetIter(rec.occupied))

\* C27: Castling-rook decode rule. When a record has been unpacked, with
\* the slots taken in ascending order of the occupied squares, a slot with
\* the castling-rook sentinel puts a rook of its color on its square and
\* gives that square's file to the color's queen-side right when no king of
\* the color stands in an earlier slot and to the king-side right when one
\* does; the decode loop sets no castling right from anything else.
CastlingRookDecode ==
    (IsSome(unpacked) /\ IsOk(SetupOf(Unwrap(packed).value))) =>
        LET rec == Unwrap(packed).value
            out == SetupOf(rec).value
            slots == 0..(Cardinality(rec.occupied) - 1)
            sentinel(n, c) == Slot(rec, n) = ColorBit(c) + 7
            sawKing(n, c) == \E m \in 0..n : Slot(rec, m) = ColorBit(c) + 6
            file(n) == NthSquare(rec, n) % 8
        IN  \A c \in Colors :
              /\ \A n \in slots :
                    sentinel(n, c) =>
                        /\ out.board[NthSquare(rec, n)] = <<c, "Rook">>
                        /\ IF sawKing(n, c)
                           THEN out.castling[c].king_side = <<file(n)>>
                           ELSE out.castling[c].queen_side = <<file(n)>>
              /\ out.castling[c].king_side # <<>> =>
                    \E n \in slots : /\ sentinel(n, c) /\ sawKing(n, c)
                                     /\ out.castling[c].king_side = <<file(n)>>
              /\ out.castling[c].queen_side # <<>> =>
                    \E n \in slots : /\ sentinel(n, c) /\ ~sawKing(n, c)
                                     /\ out.castling[c].queen_side = <<file(n)>>

CastlingRookDecodeReached ==
    /\ IsSome(unpacked)
    /\ IsOk(Unwrap(unpacked))
    /\ line = LiftLine
    /\ ply = 4
    /\ Unwrap(unpacked).value.position.castling["White"] =
           [king_side |-> <<7>>, queen_side |-> <<>>]
    /\ Unwrap(unpacked).value.position.castling["Black"] =
           [king_side |-> <<>>, queen_side |-> <<0>>]

\* The sample's occupied squares, ascending.
OccupiedAscending(pos) ==
    LET On(sq) == pos.board[sq] # <<>> IN SelectSeq([i \in 1..64 |-> i - 1], On)

\* Whether the piece on sq is a rook on its own back rank on a file that is
\* one of its color's castling files.
IsCastlingRook(pos, sq) ==
    LET c == pos.board[sq][1] IN
    /\ pos.board[sq][2] = "Rook"
    /\ sq \div 8 = (IF c = "White" THEN 0 ELSE 7)
    /\ \/ pos.castling[c].king_side = <<sq % 8>>
       \/ pos.castling[c].queen_side = <<sq % 8>>

\* C28: Castling-rook encode rule. In a record pack produced, the slot of a
\* square holds the castling-rook sentinel exactly when the piece there is a
\* rook on its own back rank whose file is castling-eligible for its color;
\* every other piece has its ordinary tag; the color bit is the piece's.
CastlingRookEncode ==
    (IsSome(packed) /\ IsOk(Unwrap(packed))
        /\ Unwrap(packed) = PackedSample_new(Unwrap(sample))) =>
        LET rec == Unwrap(packed).value
            pos == Unwrap(sample).position
            squares == OccupiedAscending(pos)
        IN  \A n \in 0..(Len(squares) - 1) :
                LET sq == squares[n + 1]
                    tag == Slot(rec, n) % 8
                IN  /\ Slot(rec, n) \div 8 = (IF pos.board[sq][1] = "White" THEN 1 ELSE 0)
                    /\ tag = 7 <=> IsCastlingRook(pos, sq)
                    /\ tag # 7 => tag = PieceKind(pos.board[sq][2]) + 1

CastlingRookEncodeReached ==
    /\ IsSome(packed)
    /\ IsOk(Unwrap(packed))
    /\ line = RookLine
    /\ ply = Len(RookLine)
    /\ Slot(Unwrap(packed).value, 0) = 15
    /\ Slot(Unwrap(packed).value, 6) = 12

\* C29: Piece-table correspondence. In a record pack produced, the occupancy
\* mask is the set of occupied squares, slot n of the piece table describes
\* the piece on the n-th occupied square in ascending order, as many slots
\* are non-zero as squares are occupied, and every later slot is zero.
PieceTableCorrespondence ==
    (IsSome(packed) /\ IsOk(Unwrap(packed))
        /\ Unwrap(packed) = PackedSample_new(Unwrap(sample))) =>
        LET rec == Unwrap(packed).value
            pos == Unwrap(sample).position
            squares == OccupiedAscending(pos)
        IN  /\ rec.occupied = {squares[k] : k \in 1..Len(squares)}
            /\ \A n \in 0..(Len(squares) - 1) :
                  LET piece == pos.board[squares[n + 1]]
                      tag == Slot(rec, n) % 8
                  IN  /\ Slot(rec, n) # 0
                      /\ Slot(rec, n) \div 8 = (IF piece[1] = "White" THEN 1 ELSE 0)
                      /\ IF tag = 7 THEN piece[2] = "Rook"
                                    ELSE tag = PieceKind(piece[2]) + 1
            /\ \A n \in Len(squares)..31 : Slot(rec, n) = 0
            /\ Cardinality({n \in 0..31 : Slot(rec, n) # 0}) = Len(squares)

PieceTableCorrespondenceReached ==
    /\ IsSome(packed)
    /\ IsOk(Unwrap(packed))
    /\ line = EnPassantLine
    /\ PieceCount(Unwrap(sample).position) = 31
    /\ Slot(Unwrap(packed).value, 30) # 0
    /\ Slot(Unwrap(packed).value, 31) = 0

\* The outcome a 2-bit code stands for: 11 draw, 10 White wins, 01 Black wins.
OutcomeOfCode(code) ==
    CASE code = 3 -> [winner |-> <<>>]
      [] code = 2 -> [winner |-> <<"White">>]
      [] code = 1 -> [winner |-> <<"Black">>]

\* C30: Outcome code. pack writes 11 for a draw, 10 for a White win and 01
\* for a Black win; a record that is a packed sample but for its outcome byte
\* unpacks to the outcome of its code when the byte is 01, 10 or 11 and to
\* InvalidOutcome for 00 and every other value of the byte.
OutcomeCode ==
    /\ (IsSome(packed) /\ IsOk(Unwrap(packed))
          /\ Unwrap(packed) = PackedSample_new(Unwrap(sample))) =>
          /\ Unwrap(packed).value.game_outcome \in {1, 2, 3}
          /\ OutcomeOfCode(Unwrap(packed).value.game_outcome) = Unwrap(sample).outcome
    /\ (/\ IsSome(unpacked)
         /\ [Unwrap(packed).value EXCEPT
                 !.game_outcome = PackedSample_new(Unwrap(sample)).value.game_outcome]
               = PackedSample_new(Unwrap(sample)).value) =>
          LET code == Unwrap(packed).value.game_outcome IN
          IF code \in {1, 2, 3}
          THEN /\ Unwrap(unpacked).tag = "Ok"
               /\ Unwrap(unpacked).value.outcome = OutcomeOfCode(code)
          ELSE Unwrap(unpacked) = [tag |-> "Err", err |-> "InvalidOutcome"]

OutcomeCodeReached ==
    /\ IsSome(unpacked)
    /\ ply > 0
    /\ Unwrap(packed).value.game_outcome = 7
    /\ Unwrap(sample).outcome = [winner |-> <<"Black">>]
    /\ Unwrap(unpacked) = [tag |-> "Err", err |-> "InvalidOutcome"]

\* C31: En-passant field. pack writes the en-passant target's square index,
\* or 0 when there is none; a record that is a packed sample but for its
\* en-passant byte never unpacks to InvalidEnPassant when the byte is below
\* 64, and then a Sample it unpacks to has no target for 0 and that square for
\* 1..63; for 64 or more unpack returns InvalidEnPassant and no Sample.
EnPassantField ==
    /\ (IsSome(packed) /\ IsOk(Unwrap(packed))
          /\ Unwrap(packed) = PackedSample_new(Unwrap(sample))) =>
          Unwrap(packed).value.en_passant =
              (IF IsSome(Unwrap(sample).position.en_passant)
               THEN Unwrap(Unwrap(sample).position.en_passant) ELSE 0)
    /\ (/\ IsSome(unpacked)
         /\ [Unwrap(packed).value EXCEPT
                 !.en_passant = PackedSample_new(Unwrap(sample)).value.en_passant]
               = PackedSample_new(Unwrap(sample)).value) =>
          LET field == Unwrap(packed).value.en_passant IN
          IF field >= 64
          THEN Unwrap(unpacked) = [tag |-> "Err", err |-> "InvalidEnPassant"]
          ELSE /\ Unwrap(unpacked) # [tag |-> "Err", err |-> "InvalidEnPassant"]
               /\ Unwrap(unpacked).tag = "Ok" =>
                     Unwrap(unpacked).value.position.en_passant =
                         (IF field = 0 THEN <<>> ELSE <<field>>)

EnPassantFieldReached ==
    /\ IsSome(unpacked)
    /\ Unwrap(sample).position.en_passant = <<43>>
    /\ Unwrap(packed).value.en_passant = 255
    /\ Unwrap(unpacked) = [tag |-> "Err", err |-> "InvalidEnPassant"]

\* C32: Halfmove clamp. pack fails only for a position of more than 32 pieces,
\* whatever the halfmove clock h; the record holds min(h, 255); unpack
\* succeeds and restores exactly the stored value, which is h whenever
\* h <= 255.
HalfmoveClamp ==
    /\ IsSome(packed) =>
          LET pos == Unwrap(sample).position IN
          IF Cardinality(Occupied(pos)) > 32
          THEN Unwrap(packed) = [tag |-> "Err", err |-> "TooManyPieces"]
          ELSE /\ Unwrap(packed).tag = "Ok"
               /\ Unwrap(packed).value.halfmove_clock =
                     (IF pos.halfmove_clock <= 255 THEN pos.halfmove_clock ELSE 255)
    /\ IsSome(unpacked) =>
          /\ Unwrap(unpacked).tag = "Ok"
          /\ Unwrap(unpacked).value.position.halfmove_clock =
                Unwrap(packed).value.halfmove_clock
          /\ Unwrap(sample).position.halfmove_clock <= 255 =>
                Unwrap(unpacked).value.position.halfmove_clock =
                    Unwrap(sample).position.halfmove_clock

HalfmoveClampReached ==
    /\ IsSome(unpacked)
    /\ Unwrap(sample).position.halfmove_clock = 257
    /\ Unwrap(packed).value.halfmove_clock = 255
    /\ Unwrap(unpacked).tag = "Ok"
    /\ Unwrap(unpacked).value.position.halfmove_clock = 255

\* 1.0, 0.5 and 0.0 as 32-bit floats, and the infinities.
One == [inf |-> 0, twice |-> 2]
Half == [inf |-> 0, twice |-> 1]
Zero == [inf |-> 0, twice |-> 0]
PlusInfinity == [inf |-> 1, twice |-> 0]
MinusInfinity == [inf |-> -1, twice |-> 0]

\* C33: Win-probability target. For the example added at index i since the
\* last clear, outcomes[i] is 1.0 when the winner is the side to move, 0.0
\* when the winner is the other side, and 0.5 for a draw.
WinProbabilityTarget ==
    bpc # "none" =>
        /\ Len(added) = entries
        /\ \A i \in 0..(entries - 1) :
              LET s == added[i + 1]
                  mover == s.position.side_to_move
              IN  outcomes[i + 1] =
                      CASE s.outcome.winner = <<>> -> Half
                        [] s.outcome.winner = <<mover>> -> One
                        [] OTHER -> Zero

WinProbabilityTargetReached ==
    /\ bpc = "ready"
    /\ entries = 2
    /\ added[1].position.side_to_move = "Black"
    /\ added[1].outcome.winner = <<"Black">>
    /\ added[2].position.side_to_move = "White"
    /\ added[2].outcome.winner = <<"Black">>
    /\ outcomes = <<One, Zero>>

\* C34: Evaluation target. For the example added at index i since the last
\* clear, eval_centipawns[i] is the stored evaluation when there is one,
\* whatever the outcome; without one it is +infinity when the side to move
\* won, -infinity when the other side won, and 0 for a draw.
EvaluationTarget ==
    bpc # "none" =>
        \A i \in 0..(Len(added) - 1) :
            LET s == added[i + 1]
                mover == s.position.side_to_move
            IN  eval_centipawns[i + 1] =
                    CASE s.eval # <<>> -> [inf |-> 0, twice |-> 2 * s.eval[1]]
                      [] s.eval = <<>> /\ s.outcome.winner = <<>> -> Zero
                      [] s.eval = <<>> /\ s.outcome.winner = <<mover>> -> PlusInfinity
                      [] OTHER -> MinusInfinity

EvaluationTargetReached ==
    /\ bpc = "ready"
    /\ entries = 2
    /\ added[1].position.side_to_move = "Black"
    /\ added[1].outcome.winner = <<"Black">>
    /\ added[1].eval = <<-202>>
    /\ added[2].position.side_to_move = "Black"
    /\ added[2].outcome.winner = <<"White">>
    /\ added[2].eval = <<>>
    /\ eval_centipawns = <<[inf |-> 0, twice |-> -404], MinusInfinity>>

\* C35: Feature-coordinate bounds. The positions added have at most 32
\* occupied squares; each add appends exactly one coordinate pair per
\* occupied square to each perspective; total_features <= 32 * entries in
\* every state; the pairs written so far lie inside the arrays, which have
\* 2 * MAX_ACTIVE_FEATURES * capacity slots, and no add stops on a write
\* outside them: an add fails only on a full batch.
FeatureCoordinateBounds ==
    /\ [](bpc # "none" =>
            /\ total_features <= 32 * entries
            /\ Len(stm_features) = 2 * MAX_ACTIVE_FEATURES * capacity
            /\ Len(non_stm_features) = 2 * MAX_ACTIVE_FEATURES * capacity
            /\ 2 * total_features <= Len(stm_features)
            /\ 2 * total_features <= Len(non_stm_features))
    /\ [][(bpc = "ready" /\ entries' = entries + 1) =>
              LET n == PieceCount(added'[entries'].position)
                  new == (total_features + 1)..total_features'
              IN  /\ n <= 32
                  /\ total_features' = total_features + n
                  /\ Cardinality({stm_features'[2 * j] : j \in new}) = n
                  /\ Cardinality({non_stm_features'[2 * j] : j \in new}) = n
                  /\ \A i \in 1..(2 * total_features) :
                        /\ stm_features'[i] = stm_features[i]
                        /\ non_stm_features'[i] = non_stm_features[i]]_vars
    /\ [][(bpc = "ready" /\ bpc' = "panicked") => entries = capacity]_vars

FeatureCoordinateBoundsReached ==
    /\ bpc = "ready"
    /\ capacity = MaxBatchCap
    /\ entries = capacity
    /\ PieceCount(added[1].position) = 31
    /\ total_features = 31 + (32 * (entries - 1))
    /\ 2 * total_features <= Len(stm_features)

\* How many pieces each example added since the last clear has.
PiecesAdded == [k \in 1..Len(added) |-> PieceCount(added[k].position)]

\* The example (counted from 0) the j-th coordinate pair (counted from 1)
\* belongs to, when every example has one pair per piece.
ExampleOfPair(j) ==
    CHOOSE i \in 0..(Len(added) - 1) :
        /\ SumSeq(SubSeq(PiecesAdded, 1, i)) < j
        /\ j <= SumSeq(SubSeq(PiecesAdded, 1, i + 1))

\* C36: Coordinate example indices. The two coordinate lists have the same
\* length, total_features pairs, one per piece of the examples added since
\* the last clear; the pair at each position carries, in both lists, the
\* number of the example that was being added when it was written; the
\* example indices never decrease along the list; and with no example added
\* since the last clear entries and total_features are 0, so that the first
\* pair of the next example is at position 0 with example index 0.
CoordinateExampleIndices ==
    bpc # "none" =>
        /\ Len(added) = entries
        /\ total_features = SumSeq(PiecesAdded)
        /\ Len(stm_features) = Len(non_stm_features)
        /\ 2 * total_features <= Len(stm_features)
        /\ \A j \in 1..total_features :
              /\ stm_features[(2 * j) - 1] = ExampleOfPair(j)
              /\ non_stm_features[(2 * j) - 1] = ExampleOfPair(j)
        /\ \A j \in 1..(total_features - 1) :
              stm_features[(2 * j) - 1] <= stm_features[(2 * j) + 1]
        /\ entries >= 1 => stm_features[1] = 0 /\ non_stm_features[1] = 0

\* Two examples of 32 pieces were added, the batch was cleared, and an
\* example of 31 pieces and one of 32 were added: pair 32 now belongs to
\* example 1, and pair 64 is left from before the clear.
CoordinateExampleIndicesReached ==
    /\ bpc = "ready"
    /\ entries = 2
    /\ PiecesAdded = <<31, 32>>
    /\ total_features = 63
    /\ stm_features[61] = 0
    /\ stm_features[63] = 1
    /\ non_stm_features[63] = 1
    /\ stm_features[127] = 1
    /\ stm_features[128] # 0

\* A shuffle pass over a source with bytes after its last whole record does
\* not end normally.
ShuffleRemainderSignalled == strail # 0 => spc # "ok"

\* No batch built from a dataset with bytes after its last whole record
\* reaches the channel or the consumer.
LoaderRemainderSignalled == ltrail # 0 => (channel = <<>> /\ got = <<>>)

\* C37: Record-size alignment. A record file whose size is not an exact
\* multiple of the record size is treated as corrupt: the shuffle pass does
\* not complete on it and the loader hands over no batch from it, instead of
\* processing the whole records and dropping the trailing bytes.
RemainderSignalled == ShuffleRemainderSignalled /\ LoaderRemainderSignalled

====
